---- MODULE Spec2Model ----
(***************************************************************************)
(* A model of the QuickBrush Obsidian plugin (src/main.ts).  The file      *)
(* holds two builds of the plugin: the direct-provider build (lines        *)
(* 1-665, reference image cap 4) and the mediated-service build (lines     *)
(* 667-1627, reference image cap 3).  The variable `variant` says which    *)
(* build a behaviour is about.                                             *)
(*                                                                         *)
(* Strings are modelled as sequences of atomic pieces (characters or fixed *)
(* phrases); concatenation is \o.  Long user texts are modelled by their   *)
(* length only.                                                            *)
(***************************************************************************)
EXTENDS Integers, Sequences, FiniteSets, TLC

VARIABLES
    variant,      \* "direct" | "mediated": which build of main.ts runs
    \* ---- Markdown extraction (pure functions of a note's content) ----
    task,         \* which function the extraction harness applies
    content,      \* a note's content, character level (frontmatter stripping)
    stripOut,     \* successive results of the frontmatter replace
    embeds,       \* a note's content, embed level (image extraction)
    images,       \* result of extractImagePaths, or NotRun
    cleaned,      \* result of extractContentWithoutFrontmatter, or NotCleaned
    \* ---- Generation client (one call of generateImage / downloadImage) ----
    op,           \* "generate" | "download" | "none": the call under way
    call,         \* what the transport does for the call under way
    outcome,      \* what the call gave its caller, or Pending
    provider,     \* direct build: what the provider does in each phase
    phases,       \* direct build: the provider calls made, in order
    \* ---- The plugin: settings, vault, generate modal, generation runs ----
    settings,     \* this.settings
    vault,        \* the paths of the vault's files and folders
    fileContent,  \* what each file of the vault holds
    now,          \* the clock
    modal,        \* the generate modal and its draft
    lastRequest,  \* the options of the generation request sent last
    notice,       \* the Notice shown last outside a run
    run,          \* the generation runs: where each handleGenerate stands
    opening,      \* openGenerateModal on its way from the note to the modal
    \* ---- Gallery note front-matter (written, then read back) ----
    note,         \* the values given, the lines written, the values read
    \* ---- Beside the pipeline ----
    disk,         \* the saved settings (data.json) and the saves under way
    dropdowns,    \* the type and aspect ratio dropdowns of a generate modal
    sync          \* a bulk sync of the remote generations

extractVars == <<task, content, stripOut, embeds, images, cleaned>>

clientVars == <<op, call, outcome, provider, phases>>

pluginVars == <<settings, vault, fileContent, now, modal, lastRequest, notice, run, opening>>

noteVars == <<note>>

sideVars == <<disk, dropdowns, sync>>

vars == <<variant, extractVars, clientVars, pluginVars, noteVars, sideVars>>

Variants == {"direct", "mediated"}

\* what `images` holds before extractImagePaths ran (0 is no position)
NotRun == <<0>>

\* extractContentWithoutFrontmatter has not been applied
NotCleaned == [text |-> <<>>, kept |-> -1]

\* the front-matter values of a note: generation type, quality, aspect ratio
Properties(generationType, quality, aspectRatio) ==
    [ok |-> TRUE, generation_type |-> generationType, quality |-> quality,
     aspect_ratio |-> aspectRatio]

\* a front-matter that cannot be read
Unreadable == [ok |-> FALSE, generation_type |-> <<>>, quality |-> <<>>, aspect_ratio |-> <<>>]

\* no gallery note is being written
NoNote == [pc |-> "idle", given |-> Unreadable, content |-> <<>>, read |-> Unreadable]

NoteIdle == note = NoNote

\* data.json: nothing saved beyond the defaults, no save begun
NoDisk ==
    [saved |-> [apiKey |-> "", quickbrushFolder |-> "Quickbrush"],
     saves |-> <<>>, started |-> <<>>, completed |-> <<>>]

\* no modal's dropdowns on screen
NoDropdowns ==
    [open |-> FALSE, defaultType |-> "", type |-> "", quality |-> "",
     aspectRatio |-> "", byHand |-> FALSE]

\* no sync under way
NoSync ==
    [pc |-> "idle", overwrite |-> FALSE, items |-> <<>>, next |-> 0, local |-> {},
     existed |-> <<>>, downloads |-> <<>>, writes |-> <<>>, counted |-> <<>>,
     success |-> 0, skipped |-> 0, errors |-> 0]

SideIdle == disk = NoDisk /\ dropdowns = NoDropdowns /\ sync = NoSync

Min(a, b) == IF a < b THEN a ELSE b

ExtractIdle ==
    /\ task = "none" /\ content = <<>> /\ stripOut = <<>> /\ embeds = <<>>
    /\ images = NotRun /\ cleaned = NotCleaned

(***************************************************************************)
(* Settings, the vault and the clock.                                      *)
(*                                                                         *)
(* A vault path is {root}/{dir}/{file}; a file name is                     *)
(* {base}-{suffix}.{ext} with suffix -1 for none.  Image names stand for   *)
(* their sanitized form.                                                   *)
(***************************************************************************)
Folders == {"Quickbrush", "Art"}

DEFAULT_SETTINGS == [apiKey |-> "", quickbrushFolder |-> "Quickbrush"]

NoFile == [base |-> <<>>, suffix |-> -1, ext |-> ""]

NoPath == [root |-> "", dir |-> "", file |-> NoFile]

RootFolder(root) == [root |-> root, dir |-> "", file |-> NoFile]

\* `${this.settings.quickbrushFolder}/quickbrush-images`
getImagesFolder(s) ==
    [root |-> s.quickbrushFolder, dir |-> "quickbrush-images", file |-> NoFile]

\* a plausible slip: the gallery folder of the default root, whatever the
\* setting is now
getGalleryFolderDefault(s) ==
    [root |-> "Quickbrush", dir |-> "quickbrush-gallery", file |-> NoFile]

\* `${this.settings.quickbrushFolder}/quickbrush-gallery`
getGalleryFolder(s) ==
    [root |-> s.quickbrushFolder, dir |-> "quickbrush-gallery", file |-> NoFile]

\* `${this.settings.quickbrushFolder}/quickbrush-generations.base`
getGenerationsBasePath(s) ==
    [root |-> s.quickbrushFolder, dir |-> "quickbrush-generations.base", file |-> NoFile]

\* `${folder}/${filename}`
FileIn(folder, file) == [folder EXCEPT !.file = file]

\* ---- what a file holds: its kind, the generation that wrote it, and the
\* path it names (a note embeds its image, the index file filters on a
\* gallery folder) ----
Content(kind, gen, ref) == [kind |-> kind, gen |-> gen, ref |-> ref]

NoContent == [p \in {} |-> Content("", 0, NoPath)]

\* the vault's files after path has been written with content c
put(fc, path, c) == [q \in DOMAIN fc \cup {path} |-> IF q = path THEN c ELSE fc[q]]

\* the clock stops at MaxTime
MaxTime == 1

(***************************************************************************)
(* The generate modal and the generation runs it starts.                   *)
(***************************************************************************)
MaxRuns == 1

Runs == 1..MaxRuns

\* a text as typed: `ws` characters of leading and trailing whitespace around
\* `core` other characters; trim() leaves the core
Draft(ws, core) == [ws |-> ws, core |-> core]

trim(d) == Draft(0, d.core)

length(d) == d.ws + d.core

\* substring(0, n) of a text, by length
substring(d, n) == IF length(d) <= n THEN d ELSE Draft(0, n)

TextLimit == 10000

PromptLimit == 1000

TextDrafts ==
    { Draft(0, 0), Draft(1, 0), Draft(0, TextLimit), Draft(0, TextLimit + 1) }

PromptDrafts ==
    { Draft(0, 0), Draft(0, PromptLimit), Draft(1, PromptLimit), Draft(0, PromptLimit + 1) }

\* extractContentWithoutFrontmatter trims and cuts at 10,000 characters
InitialTexts == { Draft(0, 0), Draft(0, TextLimit) }

\* ---- names: sequences of pieces; " " is whitespace, "-" the hyphen, "!" a
\* character outside [\w\s-], every other piece a run of word characters ----
Elara == <<"Elara", " ", "Moonwhisper", "!", "!">>

NameInputs == { <<>>, Elara }

\* the characters \s matches: the space and the newline
WhiteSpace == {" ", "NL"}

\* String.prototype.trim
RECURSIVE trimStart(_)
trimStart(s) == IF s # <<>> /\ Head(s) \in WhiteSpace THEN trimStart(Tail(s)) ELSE s

RECURSIVE trimEnd(_)
trimEnd(s) ==
    IF s # <<>> /\ s[Len(s)] \in WhiteSpace THEN trimEnd(SubSeq(s, 1, Len(s) - 1)) ELSE s

trimString(s) == trimEnd(trimStart(s))

\* .replace(/[^\w\s-]/g, '')
RECURSIVE removeOutside(_)
removeOutside(s) ==
    IF s = <<>> THEN <<>>
    ELSE IF Head(s) = "!" THEN removeOutside(Tail(s))
    ELSE <<Head(s)>> \o removeOutside(Tail(s))

\* .replace(/\s+/g, '-'): every run of whitespace becomes one hyphen
RECURSIVE collapse(_)
collapse(s) ==
    IF s = <<>> THEN <<>>
    ELSE IF Head(s) = " " THEN <<"-">> \o collapse(trimStart(s))
    ELSE <<Head(s)>> \o collapse(Tail(s))

\* imageName.replace(/[^\w\s-]/g, '').trim().replace(/\s+/g, '-')
sanitize(name) == collapse(trimString(removeOutside(name)))

ClosedModal ==
    [open |-> FALSE, text |-> Draft(0, 0), prompt |-> Draft(0, 0), name |-> <<>>,
     referenceImages |-> 0, picking |-> 0, reading |-> 0]

NoRequest == [text |-> -1, prompt |-> -1, referenceImages |-> -1]

\* file pickers open and FileReaders reading at the same time
MaxReading == 2

IdleRun ==
    [pc |-> "idle", imageName |-> <<>>, resultName |-> <<>>,
     target |-> NoPath, filepath |-> NoPath, galleryFolder |-> NoPath,
     basePath |-> NoPath, query |-> NoPath,
     steps |-> <<>>, requests |-> <<>>, writes |-> 0,
     wroteImage |-> FALSE, wroteNote |-> FALSE, notice |-> ""]

\* openGenerateModal has not been invoked
NotOpening ==
    [pc |-> "idle", initialName |-> <<>>, paths |-> <<>>, entries |-> <<>>,
     initialImages |-> <<>>, error |-> ""]

PipelineIdle ==
    /\ settings = DEFAULT_SETTINGS
    /\ vault = {}
    /\ fileContent = NoContent
    /\ now = 0
    /\ modal = ClosedModal
    /\ lastRequest = NoRequest
    /\ notice = ""
    /\ run = [r \in Runs |-> IdleRun]
    /\ opening = NotOpening

\* ---- the step log of a run: which pipeline function was entered, and how
\* it ended ----
Enter(steps, step) == Append(steps, [step |-> step, res |-> "pending"])

Finish(steps, res) == [steps EXCEPT ![Len(steps)].res = res]

\* a plausible slip: a failed step sends the run's first request again, up
\* to three requests in all
Retried(rn) ==
    IF Len(rn.requests) < 3
    THEN [rn EXCEPT !.pc = rn.requests[1], !.steps = Enter(<<>>, "generate"),
                    !.requests = Append(@, rn.requests[1]), !.target = NoPath]
    ELSE [rn EXCEPT !.pc = "failed", !.steps = Finish(rn.steps, "failed"),
                    !.notice = "error", !.target = NoPath]

\* the catch block of handleGenerate: notice.hide(); new Notice(error.message)
Failed(rn) ==
    [rn EXCEPT !.pc = "failed", !.steps = Finish(rn.steps, "failed"),
               !.notice = "error", !.target = NoPath]

\* ---- the synchronous stretches between two awaits ----

\* the file name of the image: the name the mediated build gets is the
\* service's image_name, the direct build's is the modal's
imageFilename(v, rn, r, time) ==
    IF v = "mediated"
    THEN IF rn.resultName # <<>>
         THEN [base |-> sanitize(rn.resultName), suffix |-> -1, ext |-> "webp"]
         ELSE [base |-> <<"quickbrush">>, suffix |-> r, ext |-> "webp"]
    ELSE IF rn.imageName # <<>>
         THEN [base |-> sanitize(rn.imageName), suffix |-> time, ext |-> "png"]
         ELSE [base |-> <<"quickbrush">>, suffix |-> time, ext |-> "png"]

\* the file name of the gallery note
noteFilename(v, rn, time) ==
    IF v = "mediated"
    THEN IF rn.resultName # <<>>
         THEN [base |-> sanitize(rn.resultName), suffix |-> time, ext |-> "md"]
         ELSE [base |-> <<>>, suffix |-> time, ext |-> "md"]
    ELSE [base |-> sanitize(rn.imageName), suffix |-> time, ext |-> "md"]

\* a plausible slip: createFolder whatever the vault holds
folderMissingAlways(vlt, folderPath) == TRUE

\* ensureFolderExists: if (!this.app.vault.getAbstractFileByPath(folderPath))
folderMissing(vlt, folderPath) == folderPath \notin vlt

\* createGalleryNote from the timestamp on: await this.app.vault.create(notePath)
writeNote(v, rn, time) ==
    [rn EXCEPT !.pc = "createNote",
               !.target = FileIn(rn.galleryFolder, noteFilename(v, rn, time)),
               !.writes = @ + 1]

\* ensureGenerationsBaseExists after the parent folder is there: the query
\* is built from the gallery folder of the settings as they are now
writeBase(rn, s) ==
    [rn EXCEPT !.pc = "createBase", !.target = rn.basePath,
               !.query = getGalleryFolder(s), !.writes = @ + 1]

\* a plausible slip: the index file is taken to be there
ensureGenerationsBaseNever(v, rn, s, vlt, time) ==
    writeNote(v, [rn EXCEPT !.basePath = getGenerationsBasePath(s)], time)

\* a plausible slip: the index file is created without looking for it
ensureGenerationsBaseAlways(v, rn, s, vlt, time) ==
    LET basePath == getGenerationsBasePath(s)
        called == [rn EXCEPT !.basePath = basePath]
    IN  IF folderMissing(vlt, RootFolder(s.quickbrushFolder))
        THEN [called EXCEPT !.pc = "createRootFolder",
                            !.target = RootFolder(s.quickbrushFolder),
                            !.writes = @ + 1]
        ELSE writeBase(called, s)

\* ensureGenerationsBaseExists up to its first await
ensureGenerationsBaseExists(v, rn, s, vlt, time) ==
    LET basePath == getGenerationsBasePath(s)
        called == [rn EXCEPT !.basePath = basePath]
    IN  IF basePath \in vlt THEN writeNote(v, called, time)
        ELSE IF folderMissing(vlt, RootFolder(s.quickbrushFolder))
             THEN [called EXCEPT !.pc = "createRootFolder",
                                 !.target = RootFolder(s.quickbrushFolder),
                                 !.writes = @ + 1]
        ELSE writeBase(called, s)

\* createGalleryNote after ensureFolderExists(galleryFolder): the mediated
\* build makes sure of the index file, the direct build has none
afterGalleryFolder(v, rn, s, vlt, time) ==
    IF v = "mediated" THEN ensureGenerationsBaseExists(v, rn, s, vlt, time)
    ELSE writeNote(v, rn, time)

\* createGalleryNote up to its first await
createGalleryNote(v, rn, s, vlt, time) ==
    LET galleryFolder == getGalleryFolder(s)
        entered == [rn EXCEPT !.steps = Enter(Finish(@, "ok"), "note"),
                              !.galleryFolder = galleryFolder]
    IN  IF folderMissing(vlt, galleryFolder)
        THEN [entered EXCEPT !.pc = "createGalleryFolder", !.target = galleryFolder,
                             !.writes = @ + 1]
        ELSE afterGalleryFolder(v, entered, s, vlt, time)

\* saveImageToVault after ensureFolderExists: await createBinary(filepath)
writeImage(v, rn, r, folder, time) ==
    LET filepath == FileIn(folder, imageFilename(v, rn, r, time))
    IN  [rn EXCEPT !.pc = "createBinary", !.target = filepath, !.filepath = filepath,
                   !.writes = @ + 1]

\* a plausible slip: the two calls of handleGenerate swapped, the note first
noteBeforeImage(v, rn, r, s, vlt, time) == createGalleryNote(v, rn, s, vlt, time)

\* saveImageToVault up to its first await
saveImageToVault(v, rn, r, s, vlt, time) ==
    LET imagesFolder == getImagesFolder(s)
        entered == [rn EXCEPT !.steps = Enter(Finish(@, "ok"), "image"),
                              !.notice = "Saving image..."]
    IN  IF folderMissing(vlt, imagesFolder)
        THEN [entered EXCEPT !.pc = "createImagesFolder", !.target = imagesFolder,
                             !.writes = @ + 1]
        ELSE writeImage(v, entered, r, imagesFolder, time)

\* vault.createFolder makes the folder and the folders above it
withFolder(vlt, folder) == vlt \cup {folder, RootFolder(folder.root)}

\* a plausible slip: a write that replaces what is there (adapter.write,
\* vault.modify)
createsOverwriting(vlt, path, ioOk) == ioOk

\* vault.create / createBinary / createFolder throw when the path is taken
\* or the write fails (ioOk = FALSE)
creates(vlt, path, ioOk) == ioOk /\ path \notin vlt


RECURSIVE Concats(_, _)
Concats(pieces, k) ==
    IF k = 0 THEN { <<>> }
    ELSE LET shorter == Concats(pieces, k - 1)
         IN  shorter \cup { p \o q : p \in shorter, q \in pieces }

RECURSIVE SeqsUpTo(_, _)
SeqsUpTo(S, k) ==
    IF k = 0 THEN { <<>> }
    ELSE LET shorter == SeqsUpTo(S, k - 1)
         IN  shorter \cup { Append(p, x) : p \in shorter, x \in S }

(***************************************************************************)
(* Generation client (mediated build): generateImage and downloadImage.    *)
(*                                                                         *)
(* A string is a sequence of pieces; ":" is a piece of its own, so that    *)
(* message.includes(':') can be decided.  The empty sequence stands for    *)
(* both the empty string and an absent property: every use below goes      *)
(* through `||` or a truthiness test, which treat the two alike.           *)
(***************************************************************************)
Includes(s, piece) == \E i \in 1..Len(s) : s[i] = piece

\* array.join(sep) for an array of strings
RECURSIVE join(_, _)
join(strings, sep) ==
    IF strings = <<>> THEN <<>>
    ELSE IF Len(strings) = 1 THEN strings[1]
    ELSE strings[1] \o <<sep>> \o join(Tail(strings), sep)

\* a plausible slip: the pieces run together, no separator
RECURSIVE joinNoSeparator(_, _)
joinNoSeparator(strings, sep) ==
    IF strings = <<>> THEN <<>>
    ELSE strings[1] \o joinNoSeparator(Tail(strings), sep)

Pending == [kind |-> "pending", isError |-> FALSE, message |-> <<>>]

Returned == [kind |-> "return", isError |-> FALSE, message |-> <<>>]

\* throw new Error(message)
Throw(message) == [kind |-> "throw", isError |-> TRUE, message |-> message]

\* a thrown value that is no Error object
ThrowNonError == [kind |-> "throw", isError |-> FALSE, message |-> <<>>]

UnknownError == <<"Unknown error">>

\* ---- JSON bodies ----
\* loc of a validation item: absent, an array of segments, or a non-array
\* (a string has no join)
LocAbsent == [t |-> "absent", segs |-> <<>>]

LocArray(segs) == [t |-> "array", segs |-> segs]

LocString == [t |-> "string", segs |-> <<>>]

Item(loc, msg, message) == [t |-> "object", loc |-> loc, msg |-> msg, message |-> message]

NullItem == [t |-> "null", loc |-> LocAbsent, msg |-> <<>>, message |-> <<>>]

BodyTextTooLong == Item(LocArray(<< <<"body">>, <<"text">> >>), <<"too long">>, <<>>)

Items ==
    { BodyTextTooLong,
      Item(LocArray(<< <<"query">> >>), <<"field required">>, <<>>),
      Item(LocAbsent, <<>>, <<"bad value">>),
      Item(LocAbsent, <<>>, <<>>),
      Item(LocString, <<"too long">>, <<>>),
      NullItem }

MaxDetailItems == 2

DetailAbsent == [t |-> "absent", s |-> <<>>, items |-> <<>>]

DetailString(s) == [t |-> "string", s |-> s, items |-> <<>>]

DetailArray(items) == [t |-> "array", s |-> <<>>, items |-> items]

Details ==
    {DetailAbsent, DetailString(<<"Not authenticated">>)}
        \cup { DetailArray(a) : a \in SeqsUpTo(Items, MaxDetailItems) }

\* response.json: a parse that throws, the value null, or an object
Unparseable(parseError) ==
    [kind |-> "unparseable", parseError |-> parseError, detail |-> DetailAbsent, message |-> <<>>]

NullBody == [kind |-> "null", parseError |-> <<>>, detail |-> DetailAbsent, message |-> <<>>]

ObjectBody(detail, message) ==
    [kind |-> "object", parseError |-> <<>>, detail |-> detail, message |-> message]

\* the text of a SyntaxError is the engine's; it may quote the body
ParseErrors == { <<"Unexpected token < in JSON at position 0">>,
                 <<"Unexpected token", ":", " <html>">> }

Bodies ==
    { Unparseable(e) : e \in ParseErrors } \cup {NullBody}
        \cup { ObjectBody(d, m) : d \in Details, m \in { <<>>, <<"quota exhausted">> } }

Statuses == {200, 201, 401, 402, 404, 422, 429, 500}

\* what requestUrl may throw: an Error whose text has a colon or has none, or
\* a value that is no Error
TransportErrors ==
    { Throw(<<"net", ":", ":", "ERR_CONNECTION_REFUSED">>),
      Throw(<<"Failed to fetch">>),
      ThrowNonError }

Responds(status, body) ==
    [transport |-> "responds", status |-> status, body |-> body, thrown |-> Pending]

Fails(thrown) ==
    [transport |-> "throws", status |-> 0, body |-> NullBody, thrown |-> thrown]

Calls ==
    { Responds(st, b) : st \in Statuses, b \in Bodies }
        \cup { Fails(e) : e \in TransportErrors }

NoCall == [transport |-> "none", status |-> 0, body |-> NullBody, thrown |-> Pending]

\* `${array}` of a detail array: the items' strings joined by ","
ItemString(e) == IF e.t = "null" THEN <<>> ELSE <<"[object Object]">>

ArrayString(items) ==
    join([i \in 1..Len(items) |-> ItemString(items[i])], ",")

\* errorData.detail || errorData.message || apiErrorMessage inside
\* try { ... } catch (e) { /* ignore JSON parse errors */ }, as it is
\* interpolated into a message
apiErrorMessage(body) ==
    IF body.kind # "object" THEN UnknownError
    ELSE IF body.detail.t = "array" THEN ArrayString(body.detail.items)
    ELSE IF body.detail.t = "string" /\ body.detail.s # <<>> THEN body.detail.s
    ELSE IF body.message # <<>> THEN body.message
    ELSE UnknownError

\* a plausible slip: the loc segments are not joined with "."
fieldNoDots(e) ==
    IF e.loc.t = "absent" THEN <<"field">> ELSE joinNoSeparator(e.loc.segs, ".")

\* e.loc ? e.loc.join('.') : 'field'
field(e) == IF e.loc.t = "absent" THEN <<"field">> ELSE join(e.loc.segs, ".")

\* e.msg || e.message || 'validation error'
msg(e) ==
    IF e.msg # <<>> THEN e.msg
    ELSE IF e.message # <<>> THEN e.message
    ELSE <<"validation error">>

\* `${field}: ${msg}`
validationLine(e) == field(e) \o <<":", " ">> \o msg(e)

\* the map callback throws a TypeError on a null item and on a loc without join
MapThrows(items) ==
    \E i \in 1..Len(items) : items[i].t = "null" \/ items[i].loc.t = "string"

\* the 422 branch: errorDetails
errorDetails(body) ==
    IF body.kind = "object" /\ body.detail.t = "array" /\ ~MapThrows(body.detail.items)
    THEN join([i \in 1..Len(body.detail.items) |-> validationLine(body.detail.items[i])],
              "NL")
    ELSE apiErrorMessage(body)

\* a plausible slip: every 2xx status taken for a success
isSuccess2xx(status) == status \in 200..299

\* response.status === 200
isSuccess(status) == status = 200

\* the if / else-if chain over response.status of generateImage
generateError(status, body) ==
    IF status = 401 THEN
        Throw(<<"Invalid API Key", ":", " ">> \o apiErrorMessage(body)
              \o <<"NL", "NL", "Please check your QuickBrush settings and update your API key from quickbrush.online.">>)
    ELSE IF status = 402 THEN
        Throw(<<"Insufficient Brushstrokes", ":", " ">> \o apiErrorMessage(body)
              \o <<"NL", "NL", "Visit quickbrush.online to purchase more or upgrade your subscription.">>)
    ELSE IF status = 429 THEN
        Throw(<<"Rate Limit Exceeded", ":", " ">> \o apiErrorMessage(body)
              \o <<"NL", "NL", "Please wait before trying again. Limits", ":", " 1 per 10 seconds, 50 per hour.">>)
    ELSE IF status = 422 THEN
        Throw(<<"Validation Error", ":", " ">> \o errorDetails(body)
              \o <<"NL", "NL", "Please check your inputs and try again.">>)
    ELSE
        Throw(<<"Generation Failed (", ToString(status), ")", ":", " ">> \o apiErrorMessage(body)
              \o <<"NL", "NL", "If this persists, please contact support at quickbrush.online.">>)

\* the if / else-if chain over response.status of downloadImage
downloadError(status, body) ==
    IF status = 404 THEN
        Throw(<<"Image Not Found", ":", " ">> \o apiErrorMessage(body)
              \o <<"NL", "NL", "The generated image could not be found. It may have been deleted or exceeded the storage limit.">>)
    ELSE IF status = 401 THEN
        Throw(<<"Invalid API Key", ":", " ">> \o apiErrorMessage(body)
              \o <<"NL", "NL", "Unable to download image. Please check your API key in settings.">>)
    ELSE
        Throw(<<"Download Failed (", ToString(status), ")", ":", " ">> \o apiErrorMessage(body)
              \o <<"NL", "NL", "Please try again.">>)

GenerateNetworkError ==
    Throw(<<"Network Error", ":", " ",
            "Failed to connect to QuickBrush API. Please check your internet connection and API URL in settings.">>)

DownloadNetworkError ==
    Throw(<<"Network Error", ":", " ",
            "Failed to download image from QuickBrush. Please check your internet connection.">>)

\* the catch block: an Error whose message includes ':' is thrown on as it
\* is, anything else becomes the network error
catch(error, networkError) ==
    IF error.isError /\ Includes(error.message, ":") THEN error ELSE networkError

\* try { requestUrl throws, or the status is looked at; `return response.json`
\* evaluates the body inside the try } catch { ... }
generateImage(c) ==
    LET r == IF c.transport = "throws" THEN c.thrown
             ELSE IF isSuccess(c.status)
                  THEN IF c.body.kind = "unparseable"
                       THEN Throw(c.body.parseError)
                       ELSE Returned
             ELSE generateError(c.status, c.body)
    IN  IF r.kind = "throw" THEN catch(r, GenerateNetworkError) ELSE r

\* the same shape; response.arrayBuffer is there whatever the body
downloadImage(c) ==
    LET r == IF c.transport = "throws" THEN c.thrown
             ELSE IF isSuccess(c.status) THEN Returned
             ELSE downloadError(c.status, c.body)
    IN  IF r.kind = "throw" THEN catch(r, DownloadNetworkError) ELSE r

(***************************************************************************)
(* generateImage of the direct build: generator.getDescription, then       *)
(* generator.generateImage with the description it gave, in one try/catch. *)
(***************************************************************************)
\* a phase resolves: getDescription with { text }, generateImage with a blob
Resolves(text) == [kind |-> "return", isError |-> FALSE, message |-> text]

\* a thrown value that is a string, not an Error object
ThrowString(text) == [kind |-> "throw", isError |-> FALSE, message |-> text]

PhaseOutcomes ==
    { Resolves(<<"a tall elf">>), Resolves(<<"a moonlit tower">>),
      Throw(<<"429 Rate limit exceeded">>), Throw(<<>>), ThrowString(<<"timeout">>) }

\* what new OpenAIClient / createGenerator and the two phases do when called
Providers ==
    [setup : {Returned, Throw(<<"Unknown generation type">>)},
     describe : PhaseOutcomes, synthesize : PhaseOutcomes]

NoProvider == [setup |-> Pending, describe |-> Pending, synthesize |-> Pending]

getDescriptionCall == [phase |-> "describe", description |-> <<>>]

\* generator.generateImage({ description: descriptionResult.text, ... })
generateImageCall(descriptionResult) ==
    [phase |-> "synthesize", description |-> descriptionResult.message]

\* the provider calls one generateImage makes: each await that throws leaves
\* the try
providerCalls(p) ==
    IF p.setup.kind # "return" THEN <<>>
    ELSE IF p.describe.kind # "return" THEN <<getDescriptionCall>>
    ELSE <<getDescriptionCall, generateImageCall(p.describe)>>

\* catch (error): throw new Error(`Generation failed: ${error.message}`) for
\* an Error, throw new Error('Generation failed: Unknown error') otherwise
generationFailed(error) ==
    IF error.isError
    THEN Throw(<<"Generation failed: ">> \o error.message)
    ELSE Throw(<<"Generation failed: ">> \o UnknownError)

\* return { imageBlob, description: descriptionResult.text }, or the catch
generateImageDirect(p) ==
    IF p.setup.kind # "return" THEN generationFailed(p.setup)
    ELSE IF p.describe.kind # "return" THEN generationFailed(p.describe)
    ELSE IF p.synthesize.kind # "return" THEN generationFailed(p.synthesize)
    ELSE Resolves(p.describe.message)

ClientIdle ==
    /\ op = "none" /\ call = NoCall /\ outcome = Pending
    /\ provider = NoProvider /\ phases = <<>>

(***************************************************************************)
(* The client harness: the transport's behaviour is drawn, and the call is *)
(* made.                                                                   *)
(***************************************************************************)
InitClient ==
    /\ \/ /\ variant = "mediated"
          /\ op \in {"generate", "download"}
          /\ call \in Calls
          /\ provider = NoProvider
       \/ /\ variant = "direct"
          /\ op = "generateDirect"
          /\ call = NoCall
          /\ provider \in Providers
    /\ outcome = Pending
    /\ phases = <<>>
    /\ ExtractIdle
    /\ PipelineIdle
    /\ NoteIdle
    /\ SideIdle

GenerateImage ==
    /\ op = "generate"
    /\ outcome = Pending
    /\ outcome' = generateImage(call)
    /\ UNCHANGED <<variant, op, call, provider, phases, extractVars, pluginVars, noteVars, sideVars>>

DownloadImage ==
    /\ op = "download"
    /\ outcome = Pending
    /\ outcome' = downloadImage(call)
    /\ UNCHANGED <<variant, op, call, provider, phases, extractVars, pluginVars, noteVars, sideVars>>

\* generateImage of the direct build: both provider phases and the catch
GenerateImageDirect ==
    /\ op = "generateDirect"
    /\ outcome = Pending
    /\ outcome' = generateImageDirect(provider)
    /\ phases' = providerCalls(provider)
    /\ UNCHANGED <<variant, op, call, provider, extractVars, pluginVars, noteVars, sideVars>>

NextClient == GenerateImage \/ DownloadImage \/ GenerateImageDirect

SpecClient == InitClient /\ [][NextClient]_vars

(***************************************************************************)
(* extractImagePaths                                                       *)
(*                                                                         *)
(* A note is a sequence of pieces, each of one lexical class:              *)
(*   "wiki"  an embed the wiki regex matches,      ![[path.ext]]           *)
(*   "md"    an embed the markdown regex matches,  ![alt](path.ext)        *)
(*   "other" text neither regex matches (prose, ![[note.md]], ...)         *)
(* The path captured from the piece at position i is represented by i, so  *)
(* that two embeds are told apart and document order is visible.           *)
(***************************************************************************)
EmbedKinds == {"wiki", "md", "other"}

MaxEmbeds == 7

\* the cap written into each build's loops
ImageCap(v) == IF v = "mediated" THEN 3 ELSE 4

\* regex.exec(content) with the g flag: the first match at or after
\* lastIndex, 0 for null
RECURSIVE exec(_, _, _)
exec(doc, kind, lastIndex) ==
    IF lastIndex > Len(doc) THEN 0
    ELSE IF doc[lastIndex] = kind THEN lastIndex
    ELSE exec(doc, kind, lastIndex + 1)

\* while ((match = regex.exec(content)) !== null && images.length < cap)
\*     images.push(match[1]);
RECURSIVE matchLoop(_, _, _, _, _)
matchLoop(doc, kind, lastIndex, imgs, cap) ==
    LET match == exec(doc, kind, lastIndex)
    IN  IF match # 0 /\ Len(imgs) < cap
        THEN matchLoop(doc, kind, match + 1, Append(imgs, match), cap)
        ELSE imgs

\* a plausible slip: one scan in document order over both kinds of embed
RECURSIVE documentOrderLoop(_, _, _, _)
documentOrderLoop(doc, lastIndex, imgs, cap) ==
    IF lastIndex > Len(doc) \/ ~(Len(imgs) < cap) THEN imgs
    ELSE IF doc[lastIndex] \in {"wiki", "md"}
         THEN documentOrderLoop(doc, lastIndex + 1, Append(imgs, lastIndex), cap)
         ELSE documentOrderLoop(doc, lastIndex + 1, imgs, cap)

extractImagePathsDocOrder(doc, cap) == documentOrderLoop(doc, 1, <<>>, cap)

extractImagePaths(doc, cap) ==
    LET wiki == matchLoop(doc, "wiki", 1, <<>>, cap)
    IN  IF Len(wiki) < cap
        THEN matchLoop(doc, "md", 1, wiki, cap)
        ELSE wiki

(***************************************************************************)
(* The frontmatter step of extractContentWithoutFrontmatter:               *)
(*     content.replace(/^---\n[\s\S]*?\n---\n/, '')                        *)
(* at character level.  "NL" is the newline character.                     *)
(***************************************************************************)
Opening == <<"-", "-", "-", "NL">>

Closing == <<"NL", "-", "-", "-", "NL">>

\* the lazy [\s\S]*? : the first position i >= from where \n---\n matches, 0 if none
RECURSIVE lazyClose(_, _)
lazyClose(s, from) ==
    IF from + 4 > Len(s) THEN 0
    ELSE IF SubSeq(s, from, from + 4) = Closing THEN from
    ELSE lazyClose(s, from + 1)

\* a greedy [\s\S]* would take the last position instead
RECURSIVE greedyClose(_, _)
greedyClose(s, from) ==
    IF from < 5 THEN 0
    ELSE IF from + 4 <= Len(s) /\ SubSeq(s, from, from + 4) = Closing THEN from
    ELSE greedyClose(s, from - 1)

frontmatterReplaceGreedy(s) ==
    IF Len(s) >= 4 /\ SubSeq(s, 1, 4) = Opening
    THEN LET c == greedyClose(s, Len(s))
         IN  IF c = 0 THEN s ELSE SubSeq(s, c + 5, Len(s))
    ELSE s

frontmatterReplace(s) ==
    IF Len(s) >= 4 /\ SubSeq(s, 1, 4) = Opening
    THEN LET c == lazyClose(s, 5)
         IN  IF c = 0 THEN s ELSE SubSeq(s, c + 5, Len(s))
    ELSE s

\* notes are built from these pieces
ContentPieces ==
    { Opening, Closing, <<"a">>, <<"NL">>, <<"-">> }

MaxPieces == 4

(***************************************************************************)
(* The formatting steps of extractContentWithoutFrontmatter, at character  *)
(* level.  "bulk" stands for a run of BulkLength word characters.          *)
(***************************************************************************)
BulkLength == TextLimit - 1

pieceLength(p) == IF p = "bulk" THEN BulkLength ELSE 1

\* text.length
RECURSIVE textLength(_)
textLength(s) == IF s = <<>> THEN 0 ELSE pieceLength(Head(s)) + textLength(Tail(s))

\* the first position j >= from where `close` matches with no character of
\* `stop` in from..j-1; 0 if none
RECURSIVE closeAt(_, _, _, _)
closeAt(s, from, close, stop) ==
    IF from + Len(close) - 1 > Len(s) THEN 0
    ELSE IF SubSeq(s, from, from + Len(close) - 1) = close THEN from
    ELSE IF s[from] \in stop THEN 0
    ELSE closeAt(s, from + 1, close, stop)

\* .replace(/open(.*?)close/g, keep ? '$1' : ''), scanning from i; the dot
\* does not match the newline
RECURSIVE replaceDelimited(_, _, _, _, _)
replaceDelimited(s, i, open, close, keep) ==
    IF i > Len(s) THEN <<>>
    ELSE LET from == i + Len(open)
             j == IF from - 1 <= Len(s) /\ SubSeq(s, i, from - 1) = open
                  THEN closeAt(s, from, close, {"NL"})
                  ELSE 0
         IN  IF j = 0
             THEN <<s[i]>> \o replaceDelimited(s, i + 1, open, close, keep)
             ELSE (IF keep THEN SubSeq(s, from, j - 1) ELSE <<>>)
                  \o replaceDelimited(s, j + Len(close), open, close, keep)

\* .replace(/\[([^\]]+)\]\([^\)]+\)/g, '$1'), scanning from i
RECURSIVE replaceMarkdownLinks(_, _)
replaceMarkdownLinks(s, i) ==
    IF i > Len(s) THEN <<>>
    ELSE LET j == IF s[i] = "[" THEN closeAt(s, i + 1, <<"]">>, {}) ELSE 0
             k == IF j > i + 1 /\ j + 1 <= Len(s) /\ s[j + 1] = "("
                  THEN closeAt(s, j + 2, <<")">>, {})
                  ELSE 0
         IN  IF k > j + 2
             THEN SubSeq(s, i + 1, j - 1) \o replaceMarkdownLinks(s, k + 1)
             ELSE <<s[i]>> \o replaceMarkdownLinks(s, i + 1)

\* ^ under the m flag
lineStart(s, i) == i = 1 \/ s[i - 1] = "NL"

\* how many characters of `set` stand in a row from position i
RECURSIVE runLength(_, _, _)
runLength(s, i, set) ==
    IF i <= Len(s) /\ s[i] \in set THEN 1 + runLength(s, i + 1, set) ELSE 0

\* .replace(/^[marks]{1,most}\s+/gm, ''), scanning from i
RECURSIVE removeLineMarkers(_, _, _, _)
removeLineMarkers(s, i, marks, most) ==
    IF i > Len(s) THEN <<>>
    ELSE LET run0 == runLength(s, i, marks)
             c == IF run0 > most THEN most ELSE run0
             w == runLength(s, i + c, WhiteSpace)
         IN  IF lineStart(s, i) /\ c >= 1 /\ w >= 1
             THEN removeLineMarkers(s, i + c + w, marks, most)
             ELSE <<s[i]>> \o removeLineMarkers(s, i + 1, marks, most)

\* .replace(/literal/g, ''), scanning from i
RECURSIVE removeLiteral(_, _, _)
removeLiteral(s, i, lit) ==
    IF i > Len(s) THEN <<>>
    ELSE IF i + Len(lit) - 1 <= Len(s) /\ SubSeq(s, i, i + Len(lit) - 1) = lit
    THEN removeLiteral(s, i + Len(lit), lit)
    ELSE <<s[i]>> \o removeLiteral(s, i + 1, lit)

\* the text as it is without the limit
limitTextNone(text) == [text |-> text, kept |-> textLength(text)]

\* if (text.length > 10000) text = text.substring(0, 10000): the result is
\* the first `kept` characters of `text`
limitText(text) ==
    [text |-> text,
     kept |-> IF textLength(text) > TextLimit THEN TextLimit ELSE textLength(text)]

extractContentWithoutFrontmatter(doc) ==
    LET noFrontmatter == frontmatterReplace(doc)
        noEmbeds == replaceDelimited(noFrontmatter, 1, <<"!", "[", "[">>, <<"]", "]">>, FALSE)
        noWikiLinks == replaceDelimited(noEmbeds, 1, <<"[", "[">>, <<"]", "]">>, TRUE)
        noLinks == replaceMarkdownLinks(noWikiLinks, 1)
        noHeaders == removeLineMarkers(noLinks, 1, {"#"}, 6)
        noBold == removeLiteral(noHeaders, 1, <<"*", "*">>)
        noItalic == removeLiteral(noBold, 1, <<"*">>)
        noListMarkers == removeLineMarkers(noItalic, 1, {"-", "*", "+"}, 1)
    IN  limitText(trimString(noListMarkers))

\* notes to clean are built from these pieces
CleanPieces ==
    { Opening, Closing,
      <<"!", "[", "[", "a", "]", "]">>, <<"[", "[", "a", "]", "]">>,
      <<"[", "a", "]", "(", "a", ")">>, <<"[">>, <<"]">>,
      <<"#", " ">>, <<"*">>, <<"-", " ">>, <<"+">>,
      <<"NL">>, <<" ">>, <<"a">>, <<"bulk">> }

MaxCleanPieces == 3

(***************************************************************************)
(* The extraction harness: a note is drawn, and the functions are applied. *)
(***************************************************************************)
InitExtract ==
    /\ variant \in Variants
    /\ task \in {"frontmatter", "images", "clean"}
    /\ CASE task = "frontmatter" ->
                content \in Concats(ContentPieces, MaxPieces) /\ embeds = <<>>
         [] task = "clean" ->
                content \in Concats(CleanPieces, MaxCleanPieces) /\ embeds = <<>>
         [] OTHER ->
                content = <<>> /\ embeds \in SeqsUpTo(EmbedKinds, MaxEmbeds)
    /\ stripOut = <<>>
    /\ images = NotRun
    /\ cleaned = NotCleaned
    /\ ClientIdle
    /\ PipelineIdle
    /\ NoteIdle
    /\ SideIdle

\* text = content.replace(frontmatterRegex, ''), applied to the note and then
\* to its own result
StripFrontmatter ==
    /\ task = "frontmatter"
    /\ Len(stripOut) < 2
    /\ stripOut' = Append(stripOut,
                          frontmatterReplace(IF stripOut = <<>> THEN content
                                             ELSE stripOut[Len(stripOut)]))
    /\ UNCHANGED <<variant, task, content, embeds, images, cleaned, clientVars, pluginVars, noteVars, sideVars>>

ExtractImagePaths ==
    /\ task = "images"
    /\ images = NotRun
    /\ images' = extractImagePaths(embeds, ImageCap(variant))
    /\ UNCHANGED <<variant, task, content, embeds, stripOut, cleaned, clientVars, pluginVars, noteVars, sideVars>>

\* initialText = this.extractContentWithoutFrontmatter(content)
CleanContent ==
    /\ task = "clean"
    /\ cleaned = NotCleaned
    /\ cleaned' = extractContentWithoutFrontmatter(content)
    /\ UNCHANGED <<variant, task, content, embeds, stripOut, images, clientVars, pluginVars, noteVars, sideVars>>

NextExtract == StripFrontmatter \/ ExtractImagePaths \/ CleanContent

SpecExtract == InitExtract /\ [][NextExtract]_vars

(***************************************************************************)
(* Actions of the settings tab and the clock.                              *)
(***************************************************************************)
\* the QuickBrush Folder field: onChange, as the vault sees it (data.json is
\* followed by QuickbrushFolderOnChange)
SetQuickbrushFolder ==
    /\ \E f \in Folders \ {settings.quickbrushFolder} :
           settings' = [settings EXCEPT !.quickbrushFolder = f]
    /\ UNCHANGED <<variant, vault, fileContent, now, modal, lastRequest, notice, run, extractVars, clientVars, opening, noteVars, sideVars>>

(***************************************************************************)
(* The dropdowns of the generate modal.                                    *)
(***************************************************************************)
\* dropdown.addOption(...)
TypeOptions == {"character", "scene", "creature", "item"}

\* the ribbon icon and the plain command pass no type
DefaultTypes == TypeOptions \cup {""}

QualityOptions == {"low", "medium", "high"}

AspectRatioOptions == {"square", "landscape", "portrait"}

\* typeDropdown.setValue(this.defaultType || 'character')
initialType(defaultType) == IF defaultType = "" THEN "character" ELSE defaultType

\* the quality dropdown's setValue
initialQuality(v) == IF v = "mediated" THEN "medium" ELSE "high"

\* the aspect ratio dropdown's setValue
initialAspectRatio(v, defaultType) ==
    IF v = "mediated" /\ defaultType = "scene" THEN "landscape" ELSE "square"

\* the type dropdown's onChange: the aspect ratio that goes with the type
aspectRatioFor(type) == IF type = "scene" THEN "landscape" ELSE "square"

\* GenerateModal.onOpen: the dropdowns are built and set
OnOpen ==
    /\ ~dropdowns.open
    /\ \E d \in DefaultTypes :
           dropdowns' = [open |-> TRUE, defaultType |-> d, type |-> initialType(d),
                         quality |-> initialQuality(variant),
                         aspectRatio |-> initialAspectRatio(variant, d),
                         byHand |-> FALSE]
    /\ UNCHANGED <<variant, extractVars, clientVars, pluginVars, noteVars, disk, sync>>

\* the user picks another type: onChange sets the aspect ratio
TypeOnChange ==
    /\ dropdowns.open
    /\ \E t \in TypeOptions \ {dropdowns.type} :
           dropdowns' = [dropdowns EXCEPT !.type = t, !.aspectRatio = aspectRatioFor(t)]
    /\ UNCHANGED <<variant, extractVars, clientVars, pluginVars, noteVars, disk, sync>>

\* the user picks another quality
QualityOnChange ==
    /\ dropdowns.open
    /\ \E q \in QualityOptions \ {dropdowns.quality} :
           dropdowns' = [dropdowns EXCEPT !.quality = q]
    /\ UNCHANGED <<variant, extractVars, clientVars, pluginVars, noteVars, disk, sync>>

\* the user picks another aspect ratio
AspectRatioOnChange ==
    /\ dropdowns.open
    /\ \E a \in AspectRatioOptions \ {dropdowns.aspectRatio} :
           dropdowns' = [dropdowns EXCEPT !.aspectRatio = a, !.byHand = TRUE]
    /\ UNCHANGED <<variant, extractVars, clientVars, pluginVars, noteVars, disk, sync>>

\* Cancel, or the modal closes on Generate
OnClose ==
    /\ dropdowns.open
    /\ dropdowns' = NoDropdowns
    /\ UNCHANGED <<variant, extractVars, clientVars, pluginVars, noteVars, disk, sync>>

\* the values typed into the API Key field
ApiKeys == {"", "key"}

\* the number of saves begun in a behaviour
MaxSaves == 3

\* this.saveData(this.settings), called but not yet written: the save
\* carries the settings as they are at the call
saveDataDefaults(d, s) ==
    [d EXCEPT !.saves = Append(@, [id |-> Len(d.started) + 1, data |-> DEFAULT_SETTINGS]),
              !.started = Append(@, s)]

saveData(d, s) ==
    [d EXCEPT !.saves = Append(@, [id |-> Len(d.started) + 1, data |-> s]),
              !.started = Append(@, s)]

\* saveSettings: await this.saveData(this.settings)
saveSettings(d, s) == saveData(d, s)

\* the API Key field: onChange sets the key and begins a save
ApiKeyOnChange ==
    /\ Len(disk.started) < MaxSaves
    /\ \E k \in ApiKeys \ {settings.apiKey} :
           settings' = [settings EXCEPT !.apiKey = k]
    /\ disk' = saveSettings(disk, settings')
    /\ UNCHANGED <<variant, vault, fileContent, now, modal, lastRequest, notice, run, extractVars, clientVars, opening, noteVars, dropdowns, sync>>

\* the QuickBrush Folder field: onChange sets the folder and begins a save
QuickbrushFolderOnChange ==
    /\ Len(disk.started) < MaxSaves
    /\ \E f \in Folders \ {settings.quickbrushFolder} :
           settings' = [settings EXCEPT !.quickbrushFolder = f]
    /\ disk' = saveSettings(disk, settings')
    /\ UNCHANGED <<variant, vault, fileContent, now, modal, lastRequest, notice, run, extractVars, clientVars, opening, noteVars, dropdowns, sync>>

\* one of the saves under way is written to data.json
SaveDataDone ==
    /\ \E i \in 1..Len(disk.saves) :
           disk' = [disk EXCEPT !.saved = disk.saves[i].data,
                                !.saves = SubSeq(@, 1, i - 1) \o SubSeq(@, i + 1, Len(@)),
                                !.completed = Append(@, disk.saves[i].id)]
    /\ UNCHANGED <<variant, settings, vault, fileContent, now, modal, lastRequest, notice, run, extractVars, clientVars, opening, noteVars, dropdowns, sync>>

\* Date.now() / new Date() move on
Tick ==
    /\ now < MaxTime
    /\ now' = now + 1
    /\ UNCHANGED <<variant, settings, vault, fileContent, modal, lastRequest, notice, run, extractVars, clientVars, opening, noteVars, sideVars>>

(***************************************************************************)
(* Actions of the generate modal.                                          *)
(***************************************************************************)
\* openGenerateModal: the modal opens with the text, the name and the
\* images taken from the active file (nothing of them without one)
OpenGenerateModal(texts, names, counts) ==
    /\ ~modal.open
    /\ \/ /\ settings.apiKey = ""
          /\ notice' = "API Key Required"
          /\ UNCHANGED modal
       \/ /\ settings.apiKey # ""
          /\ \E t \in texts, n \in names, k \in counts :
                 modal' = [open |-> TRUE, text |-> t, prompt |-> Draft(0, 0), name |-> n,
                           referenceImages |-> k, picking |-> 0, reading |-> 0]
          /\ UNCHANGED notice
    /\ UNCHANGED <<variant, settings, vault, fileContent, now, lastRequest, run, extractVars, clientVars, opening, noteVars, sideVars>>

\* the user types in the description, the prompt or the name field
EditText ==
    /\ modal.open
    /\ \E d \in TextDrafts \ {modal.text} : modal' = [modal EXCEPT !.text = d]
    /\ UNCHANGED <<variant, settings, vault, fileContent, now, lastRequest, notice, run, extractVars, clientVars, opening, noteVars, sideVars>>

EditPrompt ==
    /\ modal.open
    /\ \E d \in PromptDrafts \ {modal.prompt} : modal' = [modal EXCEPT !.prompt = d]
    /\ UNCHANGED <<variant, settings, vault, fileContent, now, lastRequest, notice, run, extractVars, clientVars, opening, noteVars, sideVars>>

EditName ==
    /\ modal.open
    /\ \E n \in NameInputs \ {modal.name} : modal' = [modal EXCEPT !.name = n]
    /\ UNCHANGED <<variant, settings, vault, fileContent, now, lastRequest, notice, run, extractVars, clientVars, opening, noteVars, sideVars>>

\* selectReferenceImage: if (this.referenceImages.length >= 3) return; the
\* Add Image button is disabled under the same condition
selectAllowed(count, cap) == count < cap

\* Add Image (mediated build): the length is checked and the file picker
\* opens (input.click())
SelectReferenceImage ==
    /\ modal.open
    /\ variant = "mediated"
    /\ selectAllowed(modal.referenceImages, ImageCap(variant))
    /\ modal.picking + modal.reading < MaxReading
    /\ modal' = [modal EXCEPT !.picking = @ + 1]
    /\ UNCHANGED <<variant, settings, vault, fileContent, now, lastRequest, notice, run, extractVars, clientVars, opening, noteVars, sideVars>>

\* input.onchange: no file, a file that is no image, or an image, which a
\* FileReader starts to read
InputOnchange ==
    /\ modal.open
    /\ modal.picking > 0
    /\ \/ /\ modal' = [modal EXCEPT !.picking = @ - 1]
          /\ UNCHANGED notice
       \/ /\ modal' = [modal EXCEPT !.picking = @ - 1]
          /\ notice' = "Invalid File Type"
       \/ /\ modal' = [modal EXCEPT !.picking = @ - 1, !.reading = @ + 1]
          /\ UNCHANGED notice
    /\ UNCHANGED <<variant, settings, vault, fileContent, now, lastRequest, run, extractVars, clientVars, opening, noteVars, sideVars>>

\* reader.onload: this.referenceImages.push(base64)
push(count, cap) == count + 1

ReaderOnload ==
    /\ modal.open
    /\ modal.reading > 0
    /\ modal' = [modal EXCEPT !.reading = @ - 1,
                              !.referenceImages = push(@, ImageCap(variant))]
    /\ notice' = "Reference image added successfully"
    /\ UNCHANGED <<variant, settings, vault, fileContent, now, lastRequest, run, extractVars, clientVars, opening, noteVars, sideVars>>

\* reader.onerror
ReaderOnerror ==
    /\ modal.open
    /\ modal.reading > 0
    /\ modal' = [modal EXCEPT !.reading = @ - 1]
    /\ notice' = "File Read Error"
    /\ UNCHANGED <<variant, settings, vault, fileContent, now, lastRequest, run, extractVars, clientVars, opening, noteVars, sideVars>>

\* the remove button of a thumbnail: this.referenceImages.splice(index, 1)
RemoveReferenceImage ==
    /\ modal.open
    /\ modal.referenceImages > 0
    /\ modal' = [modal EXCEPT !.referenceImages = @ - 1]
    /\ UNCHANGED <<variant, settings, vault, fileContent, now, lastRequest, notice, run, extractVars, clientVars, opening, noteVars, sideVars>>

\* the Cancel button
Cancel ==
    /\ modal.open
    /\ modal' = ClosedModal
    /\ UNCHANGED <<variant, settings, vault, fileContent, now, lastRequest, notice, run, extractVars, clientVars, opening, noteVars, sideVars>>

\* the options handleGenerate hands to generateImage, by their lengths
options(v, m) ==
    IF v = "mediated"
    THEN [text |-> length(substring(trim(m.text), TextLimit)),
          prompt |-> length(substring(m.prompt, PromptLimit)),
          referenceImages |-> m.referenceImages]
    ELSE [text |-> length(trim(m.text)),
          prompt |-> length(trim(m.prompt)),
          referenceImages |-> m.referenceImages]

\* a plausible slip: the description is checked as typed, not trimmed
validationUntrimmed(v, m) ==
    IF length(m.text) = 0 THEN "Description Required"
    ELSE IF v = "mediated" /\ trimString(m.name) = <<>> THEN "Image Name Required"
    ELSE ""

\* which check of handleGenerate stops the press, "" for none
validation(v, m) ==
    IF length(trim(m.text)) = 0 THEN "Description Required"
    ELSE IF v = "mediated" /\ trimString(m.name) = <<>> THEN "Image Name Required"
    ELSE ""

\* the run a press of Generate starts: the request is on its way
started(v, m) ==
    [IdleRun EXCEPT
        !.pc = IF v = "mediated" THEN "generate" ELSE "describe",
        !.imageName = IF v = "direct" /\ trimString(m.name) = <<>> THEN <<"Untitled">>
                      ELSE trimString(m.name),
        !.steps = Enter(<<>>, "generate"),
        !.requests = << (IF v = "mediated" THEN "generate" ELSE "describe") >>,
        !.notice = "Generating image..."]

\* handleGenerate up to its first await; the run takes the first free of
\* the given slots
HandleGenerateIn(slots) ==
    /\ modal.open
    /\ \/ /\ validation(variant, modal) # ""
          /\ notice' = validation(variant, modal)
          /\ UNCHANGED <<modal, lastRequest, run>>
       \/ /\ validation(variant, modal) = ""
          /\ \E r \in slots :
                /\ run[r].pc = "idle"
                /\ \A q \in 1..(r - 1) : run[q].pc # "idle"
                /\ run' = [run EXCEPT ![r] = started(variant, modal)]
          /\ lastRequest' = options(variant, modal)
          /\ modal' = ClosedModal
          /\ UNCHANGED notice
    /\ UNCHANGED <<variant, settings, vault, fileContent, now, extractVars, clientVars, opening, noteVars, sideVars>>

HandleGenerate == HandleGenerateIn(Runs)

(***************************************************************************)
(* The rest of handleGenerate: one action per await that completes.        *)
(***************************************************************************)
\* what the service may do to a request of a run
OkBody == ObjectBody(DetailAbsent, <<>>)

PipelineCalls ==
    { Responds(200, OkBody),
      Responds(402, ObjectBody(DetailString(<<"Not authenticated">>), <<>>)),
      Fails(Throw(<<"Failed to fetch">>)) }

\* await this.plugin.generateImage(options) of the mediated build; the
\* service may leave image_name out of its answer
GenerateResponds(r) ==
    /\ run[r].pc = "generate"
    /\ \E c \in PipelineCalls, echo \in BOOLEAN :
          run' = [run EXCEPT ![r] =
                    IF generateImage(c).kind = "return"
                    THEN [@ EXCEPT !.pc = "download",
                                   !.resultName = IF echo THEN run[r].imageName ELSE <<>>,
                                   !.steps = Enter(Finish(@, "ok"), "download"),
                                   !.requests = Append(@, "download"),
                                   !.notice = "Downloading image..."]
                    ELSE Failed(@)]
    /\ UNCHANGED <<variant, settings, vault, fileContent, now, modal, lastRequest, notice, extractVars, clientVars, opening, noteVars, sideVars>>

\* await this.plugin.downloadImage(result.generation_id), then
\* saveImageToVault up to its first await
DownloadResponds(r) ==
    /\ run[r].pc = "download"
    /\ \E c \in PipelineCalls :
          run' = [run EXCEPT ![r] =
                    IF downloadImage(c).kind = "return"
                    THEN saveImageToVault(variant, @, r, settings, vault, now)
                    ELSE Failed(@)]
    /\ UNCHANGED <<variant, settings, vault, fileContent, now, modal, lastRequest, notice, extractVars, clientVars, opening, noteVars, sideVars>>

\* generateImage of the direct build: await generator.getDescription(...)
DescribeResponds(r) ==
    /\ run[r].pc = "describe"
    /\ \E ok \in BOOLEAN :
          run' = [run EXCEPT ![r] =
                    IF ok
                    THEN [@ EXCEPT !.pc = "synthesize",
                                   !.requests = Append(@, "synthesize")]
                    ELSE Failed(@)]
    /\ UNCHANGED <<variant, settings, vault, fileContent, now, modal, lastRequest, notice, extractVars, clientVars, opening, noteVars, sideVars>>

\* await generator.generateImage(...), then saveImageToVault up to its
\* first await
SynthesizeResponds(r) ==
    /\ run[r].pc = "synthesize"
    /\ \E ok \in BOOLEAN :
          run' = [run EXCEPT ![r] =
                    IF ok
                    THEN saveImageToVault(variant, @, r, settings, vault, now)
                    ELSE Failed(@)]
    /\ UNCHANGED <<variant, settings, vault, fileContent, now, modal, lastRequest, notice, extractVars, clientVars, opening, noteVars, sideVars>>

\* ensureFolderExists(imagesFolder): await createFolder, then the image write
CreateImagesFolderDone(r) ==
    /\ run[r].pc = "createImagesFolder"
    /\ \E ioOk \in BOOLEAN :
          IF creates(vault, run[r].target, ioOk)
          THEN /\ vault' = withFolder(vault, run[r].target)
               /\ run' = [run EXCEPT ![r] = writeImage(variant, @, r, @.target, now)]
          ELSE /\ run' = [run EXCEPT ![r] = Failed(@)]
               /\ UNCHANGED vault
    /\ UNCHANGED <<variant, settings, fileContent, now, modal, lastRequest, notice, extractVars, clientVars, opening, noteVars, sideVars>>

\* await this.app.vault.createBinary(filepath, ...), then createGalleryNote up
\* to its first await
CreateBinaryDone(r) ==
    /\ run[r].pc = "createBinary"
    /\ \E ioOk \in BOOLEAN :
          IF creates(vault, run[r].target, ioOk)
          THEN /\ vault' = vault \cup {run[r].target}
               /\ fileContent' = put(fileContent, run[r].target,
                                     Content("image", r, NoPath))
               /\ run' = [run EXCEPT ![r] =
                            createGalleryNote(variant, [@ EXCEPT !.wroteImage = TRUE],
                                              settings, vault', now)]
          ELSE /\ run' = [run EXCEPT ![r] = Failed(@)]
               /\ UNCHANGED <<vault, fileContent>>
    /\ UNCHANGED <<variant, settings, now, modal, lastRequest, notice, extractVars, clientVars, opening, noteVars, sideVars>>

\* ensureFolderExists(galleryFolder): await createFolder, then on to the index
\* file or the note
CreateGalleryFolderDone(r) ==
    /\ run[r].pc = "createGalleryFolder"
    /\ \E ioOk \in BOOLEAN :
          IF creates(vault, run[r].target, ioOk)
          THEN /\ vault' = withFolder(vault, run[r].target)
               /\ run' = [run EXCEPT ![r] =
                            afterGalleryFolder(variant, @, settings, vault', now)]
          ELSE /\ run' = [run EXCEPT ![r] = Failed(@)]
               /\ UNCHANGED vault
    /\ UNCHANGED <<variant, settings, fileContent, now, modal, lastRequest, notice, extractVars, clientVars, opening, noteVars, sideVars>>

\* ensureGenerationsBaseExists: await this.ensureFolderExists(quickbrushFolder)
CreateRootFolderDone(r) ==
    /\ run[r].pc = "createRootFolder"
    /\ \E ioOk \in BOOLEAN :
          IF creates(vault, run[r].target, ioOk)
          THEN /\ vault' = withFolder(vault, run[r].target)
               /\ run' = [run EXCEPT ![r] = writeBase(@, settings)]
          ELSE /\ run' = [run EXCEPT ![r] = Failed(@)]
               /\ UNCHANGED vault
    /\ UNCHANGED <<variant, settings, fileContent, now, modal, lastRequest, notice, extractVars, clientVars, opening, noteVars, sideVars>>

\* ensureGenerationsBaseExists: await this.app.vault.create(basePath, content)
CreateBaseDone(r) ==
    /\ run[r].pc = "createBase"
    /\ \E ioOk \in BOOLEAN :
          IF creates(vault, run[r].target, ioOk)
          THEN /\ vault' = vault \cup {run[r].target}
               /\ fileContent' = put(fileContent, run[r].target,
                                     Content("base", r, run[r].query))
               /\ run' = [run EXCEPT ![r] = writeNote(variant, @, now)]
          ELSE /\ run' = [run EXCEPT ![r] = Failed(@)]
               /\ UNCHANGED <<vault, fileContent>>
    /\ UNCHANGED <<variant, settings, now, modal, lastRequest, notice, extractVars, clientVars, opening, noteVars, sideVars>>

\* await this.app.vault.create(notePath, content); notice.hide(); the
\* success notice
CreateNoteDone(r) ==
    /\ run[r].pc = "createNote"
    /\ \E ioOk \in BOOLEAN :
          IF creates(vault, run[r].target, ioOk)
          THEN /\ vault' = vault \cup {run[r].target}
               /\ fileContent' = put(fileContent, run[r].target,
                                     Content("note", r, run[r].filepath))
               /\ run' = [run EXCEPT ![r] =
                            [@ EXCEPT !.pc = "done", !.wroteNote = TRUE,
                                      !.steps = Finish(@, "ok"),
                                      !.notice = "success", !.target = NoPath]]
          ELSE /\ run' = [run EXCEPT ![r] = Failed(@)]
               /\ UNCHANGED <<vault, fileContent>>
    /\ UNCHANGED <<variant, settings, now, modal, lastRequest, notice, extractVars, clientVars, opening, noteVars, sideVars>>

Continue(r) ==
    \/ GenerateResponds(r)
    \/ DownloadResponds(r)
    \/ DescribeResponds(r)
    \/ SynthesizeResponds(r)
    \/ CreateImagesFolderDone(r)
    \/ CreateBinaryDone(r)
    \/ CreateGalleryFolderDone(r)
    \/ CreateRootFolderDone(r)
    \/ CreateBaseDone(r)
    \/ CreateNoteDone(r)

\* what a generation of the same name, made in an earlier session at time 0 with
\* the default folder, has left in the vault
EarlierVault(v) ==
    LET s == DEFAULT_SETTINGS
        earlier == [IdleRun EXCEPT !.imageName = Elara, !.resultName = Elara]
    IN  { RootFolder(s.quickbrushFolder), getImagesFolder(s), getGalleryFolder(s),
          FileIn(getImagesFolder(s), imageFilename(v, earlier, 1, 0)),
          FileIn(getGalleryFolder(s), noteFilename(v, earlier, 0)) }
        \cup (IF v = "mediated" THEN { getGenerationsBasePath(s) } ELSE {})

\* and what its files hold
EarlierContent(v) ==
    LET s == DEFAULT_SETTINGS
        files == { p \in EarlierVault(v) : p.file # NoFile \/ p = getGenerationsBasePath(s) }
        image == CHOOSE p \in files : p.dir = getImagesFolder(s).dir
    IN  [p \in files |->
            IF p = getGenerationsBasePath(s) THEN Content("base", 0, getGalleryFolder(s))
            ELSE IF p = image THEN Content("image", 0, NoPath)
            ELSE Content("note", 0, image)]

(***************************************************************************)
(* The front-matter of a gallery note: the lines createGalleryNote builds, *)
(* and what a YAML reader makes of them.  A value is a sequence of pieces: *)
(* the double quote, the backslash, and words.                             *)
(***************************************************************************)
Quote == "\""

Backslash == "\\"

Fence == <<"---", "NL">>

GenerationTypes == { <<"character">>, <<"scene">>, <<"creature">>, <<"item">> }

Qualities == { <<"low">>, <<"medium">>, <<"high">> }

AspectRatios == { <<"square">>, <<"landscape">>, <<"portrait">> }

MaxValueLen == 2

\* strings that are none of the dropdown values
OtherValues == SeqsUpTo({"a", Quote, Backslash}, MaxValueLen)

\* the value as it is
escapeNothing(value) == value

\* value.replace(/"/g, '\\"')
RECURSIVE escape(_)
escape(value) ==
    IF value = <<>> THEN <<>>
    ELSE IF Head(value) = Quote THEN <<Backslash, Quote>> \o escape(Tail(value))
    ELSE <<Head(value)>> \o escape(Tail(value))

\* content += `${key}: "${escapedValue}"\n`
quotedLine(key, value) == <<key, ":", " ", Quote>> \o escape(value) \o <<Quote, "NL">>

\* `key: ${value}` and the newline of the template
plainLine(key, value) == <<key, ":", " ">> \o value \o <<"NL">>

\* the front-matter block each build writes at the head of the note
frontmatter(v, given) ==
    IF v = "mediated"
    THEN Fence
         \o quotedLine("date", <<"2026-11-06T10:00:00.000Z">>)
         \o quotedLine("generation_type", given.generation_type)
         \o quotedLine("quality", given.quality)
         \o quotedLine("aspect_ratio", given.aspect_ratio)
         \o <<"brushstrokes_used", ":", " ", Quote, "3", Quote, "NL">>
         \o quotedLine("image", <<"[[", "Quickbrush/quickbrush-images/a.webp", "]]">>)
         \o Fence
    ELSE Fence
         \o plainLine("generation_type", given.generation_type)
         \o plainLine("quality", given.quality)
         \o plainLine("aspect_ratio", given.aspect_ratio)
         \o plainLine("created", <<"2026-11-06T10:00:00.000Z">>)
         \o Fence

\* ---- reading: the YAML of the block, line by line ----
\* the lines of a text, without their newlines
RECURSIVE splitLines(_, _)
splitLines(s, line) ==
    IF s = <<>> THEN IF line = <<>> THEN <<>> ELSE <<line>>
    ELSE IF Head(s) = "NL" THEN <<line>> \o splitLines(Tail(s), <<>>)
    ELSE splitLines(Tail(s), Append(line, Head(s)))

ScalarError == [ok |-> FALSE, value |-> <<>>]

Scalar(value) == [ok |-> TRUE, value |-> value]

\* a double-quoted scalar from position i on: \" is the quote, \\ the
\* backslash, a quote ends the scalar and must end the line
RECURSIVE doubleQuoted(_, _, _)
doubleQuoted(s, i, acc) ==
    IF i > Len(s) THEN ScalarError
    ELSE IF s[i] = Quote
    THEN IF i = Len(s) THEN Scalar(acc) ELSE ScalarError
    ELSE IF s[i] = Backslash
    THEN IF i + 1 <= Len(s) /\ s[i + 1] \in {Quote, Backslash}
         THEN doubleQuoted(s, i + 2, Append(acc, s[i + 1]))
         ELSE ScalarError
    ELSE doubleQuoted(s, i + 1, Append(acc, s[i]))

\* the value of a line `key: scalar`: a double-quoted scalar, or a plain one
\* (an empty plain scalar is null, not a string)
scalarOf(s) ==
    IF s = <<>> THEN ScalarError
    ELSE IF Head(s) = Quote THEN doubleQuoted(s, 2, <<>>)
    ELSE Scalar(s)

\* the scalar of the line of the block with the given key
RECURSIVE valueOfKey(_, _)
valueOfKey(lines, key) ==
    IF lines = <<>> THEN ScalarError
    ELSE LET line == Head(lines)
         IN  IF Len(line) >= 3 /\ line[1] = key /\ line[2] = ":" /\ line[3] = " "
             THEN scalarOf(SubSeq(line, 4, Len(line)))
             ELSE valueOfKey(Tail(lines), key)

\* the lines between the fence that opens the note and the next fence
RECURSIVE blockLines(_)
blockLines(lines) ==
    IF lines = <<>> \/ Head(lines) = <<"---">> THEN <<>>
    ELSE <<Head(lines)>> \o blockLines(Tail(lines))

readFrontmatter(text) ==
    LET lines == splitLines(text, <<>>)
        block == IF lines # <<>> /\ Head(lines) = <<"---">>
                 THEN blockLines(Tail(lines)) ELSE <<>>
        generationType == valueOfKey(block, "generation_type")
        quality == valueOfKey(block, "quality")
        aspectRatio == valueOfKey(block, "aspect_ratio")
    IN  IF generationType.ok /\ quality.ok /\ aspectRatio.ok
        THEN Properties(generationType.value, quality.value, aspectRatio.value)
        ELSE Unreadable

InitNote ==
    /\ variant \in Variants
    /\ \E generationType \in GenerationTypes \cup OtherValues,
          quality \in Qualities \cup OtherValues,
          aspectRatio \in AspectRatios \cup OtherValues :
           note = [pc |-> "given",
                   given |-> Properties(generationType, quality, aspectRatio),
                   content |-> <<>>, read |-> Unreadable]
    /\ ExtractIdle
    /\ ClientIdle
    /\ PipelineIdle
    /\ SideIdle

\* createGalleryNote builds the content of the note
WriteGalleryNote ==
    /\ note.pc = "given"
    /\ note' = [note EXCEPT !.pc = "written", !.content = frontmatter(variant, note.given)]
    /\ UNCHANGED <<variant, extractVars, clientVars, pluginVars, sideVars>>

\* the front-matter of the note is read back
ReadGalleryNote ==
    /\ note.pc = "written"
    /\ note' = [note EXCEPT !.pc = "read", !.read = readFrontmatter(note.content)]
    /\ UNCHANGED <<variant, extractVars, clientVars, pluginVars, sideVars>>

NextNote == WriteGalleryNote \/ ReadGalleryNote

SpecNote == InitNote /\ [][NextNote]_vars

(***************************************************************************)
(* The Sync Orchestrator (spec section 4.5; its code is not in src/):      *)
(*   fetch-inventory -> for each remote item: { check-local-existence ->   *)
(*   skip | (download -> write-image -> write-or-modify-note) } -> tally   *)
(* A remote item is known by the local file name computed for it.  The     *)
(* record keeps, beside the three counts, what was done for each item:     *)
(* `existed` the result of its check, `downloads` and `writes` the items   *)
(* downloaded and written, `counted` the count each item went to.          *)
(***************************************************************************)
MaxItems == 3

FileNames == {"Elara-Moonwhisper.webp", "quickbrush-7.webp"}

\* the run turns to the item after the one at `next`, or to the tally
nextItem(s) ==
    IF s.next = Len(s.items)
    THEN [s EXCEPT !.pc = "tally"]
    ELSE [s EXCEPT !.pc = "item", !.next = @ + 1]

\* a failure ends the run where it stands
countStopsOnError(s, as) ==
    IF as = "error"
    THEN [s EXCEPT !.pc = "aborted", !.counted = Append(@, as), !.errors = @ + 1]
    ELSE nextItem([s EXCEPT !.counted = Append(@, as),
                            !.success = IF as = "success" THEN @ + 1 ELSE @,
                            !.skipped = IF as = "skipped" THEN @ + 1 ELSE @])

\* an item is counted: success, skipped or error
count(s, as) ==
    nextItem([s EXCEPT !.counted = Append(@, as),
                       !.success = IF as = "success" THEN @ + 1 ELSE @,
                       !.skipped = IF as = "skipped" THEN @ + 1 ELSE @,
                       !.errors = IF as = "error" THEN @ + 1 ELSE @])

\* the check that ignores the overwrite flag
skipsExisting(exists, overwrite) == exists

\* a local file of that name exists and overwrite is not requested
skips(exists, overwrite) == exists /\ ~overwrite

\* the item at `next`: check-local-existence, then skip or download
checkItem(s) ==
    LET exists == s.items[s.next] \in s.local
        checked == [s EXCEPT !.existed = Append(@, exists)]
    IN  IF skips(exists, s.overwrite)
        THEN count(checked, "skipped")
        ELSE [checked EXCEPT !.pc = "download", !.downloads = Append(@, s.next)]

\* the sync is started on a local store, with or without overwrite
StartSync ==
    /\ sync.pc = "idle"
    /\ \E overwrite \in BOOLEAN, local \in SUBSET FileNames :
           sync' = [sync EXCEPT !.pc = "fetch", !.overwrite = overwrite, !.local = local]
    /\ UNCHANGED <<variant, extractVars, clientVars, pluginVars, noteVars, disk, dropdowns>>

\* the inventory arrives: up to a page of remote records
FetchInventoryDone ==
    /\ sync.pc = "fetch"
    /\ \E items \in SeqsUpTo(FileNames, MaxItems) :
           sync' = IF items = <<>> THEN [sync EXCEPT !.pc = "tally"]
                   ELSE [sync EXCEPT !.pc = "item", !.items = items, !.next = 1]
    /\ UNCHANGED <<variant, extractVars, clientVars, pluginVars, noteVars, disk, dropdowns>>

\* the loop turns to its next item
CheckLocalExistence ==
    /\ sync.pc = "item"
    /\ sync' = checkItem(sync)
    /\ UNCHANGED <<variant, extractVars, clientVars, pluginVars, noteVars, disk, dropdowns>>

\* the download of the item's image ends
SyncDownloadDone ==
    /\ sync.pc = "download"
    /\ \E ok \in BOOLEAN :
           sync' = IF ok THEN [sync EXCEPT !.pc = "writeImage"]
                   ELSE count(sync, "error")
    /\ UNCHANGED <<variant, extractVars, clientVars, pluginVars, noteVars, disk, dropdowns>>

\* the binary is written or overwritten
SyncWriteImageDone ==
    /\ sync.pc = "writeImage"
    /\ \E ok \in BOOLEAN :
           sync' = IF ok
                   THEN [sync EXCEPT !.pc = "writeNote",
                                     !.local = @ \cup {sync.items[sync.next]},
                                     !.writes = Append(@, sync.next)]
                   ELSE count(sync, "error")
    /\ UNCHANGED <<variant, extractVars, clientVars, pluginVars, noteVars, disk, dropdowns>>

\* the companion note is written or overwritten
SyncWriteNoteDone ==
    /\ sync.pc = "writeNote"
    /\ \E ok \in BOOLEAN :
           sync' = count(sync, IF ok THEN "success" ELSE "error")
    /\ UNCHANGED <<variant, extractVars, clientVars, pluginVars, noteVars, disk, dropdowns>>

InitSync ==
    /\ variant = "mediated"
    /\ ExtractIdle
    /\ ClientIdle
    /\ PipelineIdle
    /\ NoteIdle
    /\ SideIdle

NextSync ==
    \/ StartSync
    \/ FetchInventoryDone
    \/ CheckLocalExistence
    \/ SyncDownloadDone
    \/ SyncWriteImageDone
    \/ SyncWriteNoteDone

SpecSync == InitSync /\ [][NextSync]_vars

(***************************************************************************)
(* openGenerateModal, one action per await: the read of the active note,   *)
(* then one resolveImageToBase64 per extracted path, then the modal.        *)
(***************************************************************************)
\* the notes opened on: up to MaxNoteEmbeds pieces
MaxNoteEmbeds == 3

\* what getFirstLinkpathDest finds for a path, and whether readBinary of it
\* succeeds
Extensions == {"png", "jpeg", "svg"}

Entries ==
    { [kind |-> "none", extension |-> "", readable |-> FALSE],
      [kind |-> "folder", extension |-> "", readable |-> FALSE] }
    \cup [kind : {"file"}, extension : Extensions, readable : BOOLEAN]

\* mimeTypes[ext] || 'image/png'
mimeTypes(ext) ==
    CASE ext = "png" -> "image/png"
      [] ext = "jpg" -> "image/jpeg"
      [] ext = "jpeg" -> "image/jpeg"
      [] ext = "gif" -> "image/gif"
      [] ext = "webp" -> "image/webp"
      [] ext = "bmp" -> "image/bmp"
      [] OTHER -> "image/png"

ResolvedNull == [kind |-> "null", path |-> 0, mimeType |-> ""]

ResolveThrows == [kind |-> "throw", path |-> 0, mimeType |-> ""]

DataUrl(imagePath, mimeType) == [kind |-> "data", path |-> imagePath, mimeType |-> mimeType]

\* the same body without its try/catch: a failed read leaves the function
resolveImageToBase64NoCatch(imagePath, entry) ==
    IF entry.kind # "file" THEN ResolvedNull
    ELSE IF ~entry.readable THEN ResolveThrows
    ELSE DataUrl(imagePath, mimeTypes(entry.extension))

resolveImageToBase64(imagePath, entry) ==
    IF entry.kind # "file" THEN ResolvedNull
    ELSE IF ~entry.readable THEN ResolvedNull
    ELSE DataUrl(imagePath, mimeTypes(entry.extension))

\* new GenerateModal(app, plugin, initialText, initialImages, initialName).open()
OpenedModal(text, name, imgs) ==
    [open |-> TRUE, text |-> text, prompt |-> Draft(0, 0), name |-> name,
     referenceImages |-> Len(imgs), picking |-> 0, reading |-> 0]

\* openGenerateModal up to vault.read(activeFile), or to the modal when no
\* file is active
OpenGenerateModalStart ==
    /\ opening.pc = "idle"
    /\ ~modal.open
    /\ \/ /\ settings.apiKey = ""
          /\ notice' = "API Key Required"
          /\ UNCHANGED <<modal, opening>>
       \/ /\ settings.apiKey # ""
          /\ \E activeFile \in BOOLEAN, basename \in NameInputs :
                 IF activeFile
                 THEN /\ opening' = [opening EXCEPT !.pc = "reading", !.initialName = basename]
                      /\ UNCHANGED modal
                 ELSE /\ opening' = [opening EXCEPT !.pc = "opened"]
                      /\ modal' = OpenedModal(Draft(0, 0), <<>>, <<>>)
          /\ UNCHANGED notice
    /\ UNCHANGED <<variant, settings, vault, fileContent, now, lastRequest, run, extractVars, clientVars, noteVars, sideVars>>

\* vault.read(activeFile) settles; on success the paths are extracted, and
\* with none of them the modal opens at once
VaultReadDone ==
    /\ opening.pc = "reading"
    /\ \/ /\ opening' = [opening EXCEPT !.pc = "rejected", !.error = "read"]
          /\ UNCHANGED modal
       \/ \E doc \in SeqsUpTo(EmbedKinds, MaxNoteEmbeds) :
              LET imagePaths == extractImagePaths(doc, ImageCap(variant))
              IN  IF imagePaths = <<>>
                  THEN /\ opening' = [opening EXCEPT !.pc = "opened"]
                       /\ modal' = OpenedModal(Draft(0, TextLimit), opening.initialName, <<>>)
                  ELSE /\ opening' = [opening EXCEPT !.pc = "resolving", !.paths = imagePaths]
                       /\ UNCHANGED modal
    /\ UNCHANGED <<variant, settings, vault, fileContent, now, lastRequest, notice, run, extractVars, clientVars, noteVars, sideVars>>

\* await resolveImageToBase64(imagePath) settles for the next path; after the
\* last one the modal opens
ResolveImageDone ==
    /\ opening.pc = "resolving"
    /\ \E entry \in Entries :
           LET imagePath == opening.paths[Len(opening.entries) + 1]
               base64 == resolveImageToBase64(imagePath, entry)
               entries == Append(opening.entries, entry)
               initialImages == IF base64.kind = "data"
                                THEN Append(opening.initialImages, base64)
                                ELSE opening.initialImages
           IN  IF base64.kind = "throw"
               THEN /\ opening' = [opening EXCEPT !.pc = "rejected", !.error = "resolve",
                                                  !.entries = entries]
                    /\ UNCHANGED modal
               ELSE IF Len(entries) = Len(opening.paths)
               THEN /\ opening' = [opening EXCEPT !.pc = "opened", !.entries = entries,
                                                  !.initialImages = initialImages]
                    /\ modal' = OpenedModal(Draft(0, TextLimit), opening.initialName, initialImages)
               ELSE /\ opening' = [opening EXCEPT !.entries = entries,
                                                  !.initialImages = initialImages]
                    /\ UNCHANGED modal
    /\ UNCHANGED <<variant, settings, vault, fileContent, now, lastRequest, notice, run, extractVars, clientVars, noteVars, sideVars>>

\* the plugin after onload: the saved settings are loaded over the defaults;
\* the vault is empty or holds an earlier session's generation
InitPlugin ==
    /\ variant \in Variants
    /\ \E key \in {"", "key"} : settings = [DEFAULT_SETTINGS EXCEPT !.apiKey = key]
    /\ \/ vault = {} /\ fileContent = NoContent
       \/ vault = EarlierVault(variant) /\ fileContent = EarlierContent(variant)
    /\ now = 0
    /\ modal = ClosedModal
    /\ lastRequest = NoRequest
    /\ notice = ""
    /\ run = [r \in Runs |-> IdleRun]
    /\ opening = NotOpening
    /\ ExtractIdle
    /\ ClientIdle
    /\ NoteIdle
    /\ SideIdle

\* the generation pipeline: modals opened on a note with a text and no image
Next ==
    \/ OpenGenerateModal({Draft(0, TextLimit)}, NameInputs, {0})
    \/ HandleGenerate
    \/ \E r \in Runs : Continue(r)
    \/ SetQuickbrushFolder
    \/ Tick

Spec == InitPlugin /\ [][Next]_vars

\* the modal alone: everything the user can do to the draft, up to the
\* request a press of Generate sends
NextModal ==
    \/ OpenGenerateModal(InitialTexts, NameInputs, 0..ImageCap(variant))
    \/ EditText
    \/ EditPrompt
    \/ EditName
    \/ SelectReferenceImage
    \/ InputOnchange
    \/ ReaderOnload
    \/ ReaderOnerror
    \/ RemoveReferenceImage
    \/ Cancel
    \/ HandleGenerate

SpecModal == InitPlugin /\ [][NextModal]_vars

\* the settings tab: fields are edited and the saves they begin are written
InitSettings ==
    /\ variant \in Variants
    /\ settings = DEFAULT_SETTINGS
    /\ vault = {} /\ fileContent = NoContent
    /\ now = 0
    /\ modal = ClosedModal
    /\ lastRequest = NoRequest
    /\ notice = ""
    /\ run = [r \in Runs |-> IdleRun]
    /\ opening = NotOpening
    /\ ExtractIdle
    /\ ClientIdle
    /\ NoteIdle
    /\ SideIdle

NextSettings == ApiKeyOnChange \/ QuickbrushFolderOnChange \/ SaveDataDone

SpecSettings == InitSettings /\ [][NextSettings]_vars

\* the dropdowns of a generate modal
InitOptions ==
    /\ variant \in Variants
    /\ settings = [DEFAULT_SETTINGS EXCEPT !.apiKey = "key"]
    /\ vault = {} /\ fileContent = NoContent
    /\ now = 0
    /\ modal = ClosedModal
    /\ lastRequest = NoRequest
    /\ notice = ""
    /\ run = [r \in Runs |-> IdleRun]
    /\ opening = NotOpening
    /\ ExtractIdle
    /\ ClientIdle
    /\ NoteIdle
    /\ SideIdle

NextOptions == OnOpen \/ TypeOnChange \/ QualityOnChange \/ AspectRatioOnChange \/ OnClose

SpecOptions == InitOptions /\ [][NextOptions]_vars

\* the settings are edited while modals are opened and generations run
InitKey ==
    /\ variant \in Variants
    /\ \E key \in ApiKeys : settings = [DEFAULT_SETTINGS EXCEPT !.apiKey = key]
    /\ vault = {} /\ fileContent = NoContent
    /\ now = 0
    /\ modal = ClosedModal
    /\ lastRequest = NoRequest
    /\ notice = ""
    /\ run = [r \in Runs |-> IdleRun]
    /\ opening = NotOpening
    /\ ExtractIdle
    /\ ClientIdle
    /\ NoteIdle
    /\ disk = [NoDisk EXCEPT !.saved = settings]
    /\ dropdowns = NoDropdowns
    /\ sync = NoSync

NextKey ==
    \/ ApiKeyOnChange
    \/ QuickbrushFolderOnChange
    \/ SaveDataDone
    \/ OpenGenerateModal({Draft(0, TextLimit)}, NameInputs, {0})
    \/ Cancel
    \/ HandleGenerate
    \/ \E r \in Runs : Continue(r)

SpecKey == InitKey /\ [][NextKey]_vars

\* two generations in flight at the same time: a modal is opened and
\* Generate pressed while the run of an earlier modal is still under way
RaceRuns == {1, 2}

InitRace ==
    /\ variant \in Variants
    /\ settings = [DEFAULT_SETTINGS EXCEPT !.apiKey = "key"]
    /\ vault = {} /\ fileContent = NoContent
    /\ now = 0
    /\ modal = ClosedModal
    /\ lastRequest = NoRequest
    /\ notice = ""
    /\ run = [r \in RaceRuns |-> IdleRun]
    /\ opening = NotOpening
    /\ ExtractIdle
    /\ ClientIdle
    /\ NoteIdle
    /\ SideIdle

NextRace ==
    \/ OpenGenerateModal({Draft(0, TextLimit)}, {Elara}, {0})
    \/ HandleGenerateIn(RaceRuns)
    \/ SetQuickbrushFolder
    \/ \E r \in RaceRuns : Continue(r)

SpecRace == InitRace /\ [][NextRace]_vars

\* the way to the modal: the note is read and its images are resolved
NextOpen ==
    \/ OpenGenerateModalStart
    \/ VaultReadDone
    \/ ResolveImageDone

SpecOpen == InitPlugin /\ [][NextOpen]_vars


(***************************************************************************)
(*                              PROPERTIES                                 *)
(***************************************************************************)

\* ------------------------------------------------------------------ C4
StartsWith(s, prefix) ==
    Len(s) >= Len(prefix) /\ SubSeq(s, 1, Len(prefix)) = prefix

\* the message prefix the error taxonomy gives each status
KindPrefix(status) ==
    CASE status = 401 -> <<"Invalid API Key", ":">>
      [] status = 402 -> <<"Insufficient Brushstrokes", ":">>
      [] status = 429 -> <<"Rate Limit Exceeded", ":">>
      [] status = 422 -> <<"Validation Error", ":">>
      [] OTHER        -> <<"Generation Failed (", ToString(status), ")", ":">>

GenerateAnswered ==
    op = "generate" /\ outcome # Pending /\ call.transport = "responds"

\* C4 (as amended): generateImage returns a result exactly when the HTTP
\* status is 200 and the response body parses as JSON; for every other status
\* it raises one error whose message starts with the prefix fixed by the
\* status (401 Invalid API Key, 402 Insufficient Brushstrokes, 429 Rate Limit
\* Exceeded, 422 Validation Error, otherwise Generation Failed with the
\* status code).
C4_StatusClassification ==
    GenerateAnswered =>
        /\ outcome.kind = "return" <=>
               (call.status = 200 /\ call.body.kind # "unparseable")
        /\ call.status # 200 =>
               /\ outcome.kind = "throw"
               /\ outcome.isError
               /\ StartsWith(outcome.message, KindPrefix(call.status))

\* a 402 answer has been turned into its error
C4_Witness ==
    /\ GenerateAnswered
    /\ call.status = 402
    /\ call.body = ObjectBody(DetailString(<<"Not authenticated">>), <<>>)
    /\ outcome.kind = "throw"
    /\ StartsWith(outcome.message,
                  <<"Insufficient Brushstrokes", ":", " ", "Not authenticated">>)

\* C4 (as claimed): generateImage returns a result exactly when the HTTP
\* status is 200.
C4_ReturnsIffStatus200 ==
    GenerateAnswered => (outcome.kind = "return" <=> call.status = 200)

\* ------------------------------------------------------------------ C5
\* C5 (as claimed): whenever the HTTP request of the generate call itself
\* throws, whatever was thrown, the caller gets the network error with the
\* generic connectivity message.
C5_TransportFailureIsNetworkError ==
    (op = "generate" /\ outcome # Pending /\ call.transport = "throws")
        => outcome = GenerateNetworkError

\* ------------------------------------------------------------------ C6
\* loc segments joined with ".", written out position by position
DotPath(segs) ==
    [i \in 1..(2 * Len(segs) - 1) |->
        IF i % 2 = 1 THEN segs[(i + 1) \div 2][1] ELSE "."]

\* the line '{field-path}: {message}' of a validation item
ItemLine(e) == DotPath(e.loc.segs) \o <<":", " ">> \o e.msg

Contains(s, part) ==
    \E i \in 0..(Len(s) - Len(part)) : SubSeq(s, i + 1, i + Len(part)) = part

CountOf(s, piece) == Cardinality({ i \in 1..Len(s) : s[i] = piece })

\* an item with a loc array of at least one segment and a message
WellFormedItem(e) ==
    e.t = "object" /\ e.loc.t = "array" /\ e.loc.segs # <<>> /\ e.msg # <<>>

ArrayDetail422 ==
    /\ GenerateAnswered
    /\ call.status = 422
    /\ call.body.kind = "object"
    /\ call.body.detail.t = "array"
    /\ call.body.detail.items # <<>>
    /\ \A i \in 1..Len(call.body.detail.items) : WellFormedItem(call.body.detail.items[i])

\* C6: for a 422 response whose detail is an array of items with a loc and a
\* message, the error message holds one line per item, '{field-path}:
\* {message}', the field path being the loc segments joined with '.'.
C6_ValidationLines ==
    ArrayDetail422 =>
        LET items == call.body.detail.items
        IN  /\ outcome.kind = "throw"
            /\ \A i \in 1..Len(items) : Contains(outcome.message, ItemLine(items[i]))
            \* the lines are separated by newlines; two more end the details
            /\ CountOf(outcome.message, "NL") = (Len(items) - 1) + 2

\* detail [{loc:[body,text], msg:'too long'}, {loc:[query], msg:'field
\* required'}]: the message holds the line body.text: too long
C6_Witness ==
    /\ ArrayDetail422
    /\ Len(call.body.detail.items) = 2
    /\ call.body.detail.items[1] = BodyTextTooLong
    /\ Contains(outcome.message, <<"body", ".", "text", ":", " ", "too long">>)
    /\ Contains(outcome.message, <<"NL", "query", ":", " ", "field required">>)

\* ------------------------------------------------------------------ C9
\* positions of the pieces of one kind, in document order
Positions(doc, kind) ==
    SelectSeq([i \in 1..Len(doc) |-> i], LAMBDA i : doc[i] = kind)

\* C9: extractImagePaths with cap N returns the first min(W,N) wiki embeds in
\* document order followed by the first min(M, N - min(W,N)) markdown embeds
\* in document order, wherever the two kinds stand in the note, and never
\* more than N entries.
C9_WikiFirstThenMarkdown ==
    images # NotRun =>
        LET N == ImageCap(variant)
            W == Positions(embeds, "wiki")
            M == Positions(embeds, "md")
            w == Min(Len(W), N)
        IN  /\ images = SubSeq(W, 1, w) \o SubSeq(M, 1, Min(Len(M), N - w))
            /\ Len(images) <= N

\* a markdown embed stands before the only wiki embed; the wiki embed still
\* comes first in the result and the cap cuts the markdown embeds
C9_Witness ==
    /\ variant = "mediated"
    /\ embeds = <<"md", "other", "wiki", "md", "md", "md">>
    /\ images = <<3, 1, 4>>

\* ------------------------------------------------------------------ C10
\* ends of the leading blocks ---\n ... \n---\n of a note, declaratively
BlockEnds(s) ==
    { k \in 9..Len(s) : SubSeq(s, 1, 4) = Opening /\ SubSeq(s, k - 4, k) = Closing }

HasLeadingBlock(s) == BlockEnds(s) # {}

ShortestBlockEnd(s) == CHOOSE k \in BlockEnds(s) : \A j \in BlockEnds(s) : k <= j

\* C10 (as amended): the frontmatter step removes exactly the shortest leading
\* block and nothing else, leaves a note without a leading block unchanged,
\* and a second application changes the text exactly when the text stripped
\* once itself begins with a frontmatter block.
C10_StripsOneLeadingBlock ==
    /\ Len(stripOut) >= 1 =>
          stripOut[1] = IF HasLeadingBlock(content)
                        THEN SubSeq(content, ShortestBlockEnd(content) + 1, Len(content))
                        ELSE content
    /\ Len(stripOut) = 2 =>
          (stripOut[2] = stripOut[1] <=> ~HasLeadingBlock(stripOut[1]))

\* a note with frontmatter whose body holds a later --- line: only the
\* leading block is gone, and stripping again changes nothing
C10_Witness ==
    /\ content = Opening \o Closing \o <<"a">> \o Closing
    /\ stripOut = << <<"a">> \o Closing, <<"a">> \o Closing >>

\* C10 (as claimed): stripping twice gives the same text as stripping once,
\* for every note.
C10_Idempotent ==
    Len(stripOut) = 2 => stripOut[2] = stripOut[1]

(***************************************************************************)
(* The generation pipeline                                                 *)
(***************************************************************************)
RunOver(r) == run[r].pc \in {"done", "failed"}

\* C1: in every run of handleGenerate, when a step after the generate call
\* fails, the run ends with no new image file and no new gallery note: the
\* image and the note of an entry are written together or not at all.
C1_ImageAndNoteTogether ==
    \A r \in Runs :
        RunOver(r) =>
            /\ run[r].wroteImage <=> run[r].wroteNote
            /\ run[r].pc = "failed" => ~run[r].wroteImage /\ ~run[r].wroteNote

\* C2: in both builds every generation request carries a source text of at
\* most 10,000 characters and a context prompt of at most 1,000 characters,
\* whatever was typed in the modal.
C2_RequestWithinLimits ==
    lastRequest # NoRequest =>
        /\ lastRequest.text <= TextLimit
        /\ lastRequest.prompt <= PromptLimit

\* the steps of a run in their order; the direct build has no download
StepOrder(v) ==
    IF v = "mediated" THEN <<"generate", "download", "image", "note">>
    ELSE <<"generate", "image", "note">>

\* C3: within one run the steps come in the order generate request, image
\* download, image write, gallery note write; a step starts only after the one
\* before it succeeded; the image write precedes the note write, and no note
\* is written for a generation whose image was not written.
C3_FixedStepOrder ==
    \A r \in Runs :
        LET steps == run[r].steps
            order == StepOrder(variant)
        IN  /\ Len(steps) <= Len(order)
            /\ \A i \in 1..Len(steps) :
                  /\ steps[i].step = order[i]
                  /\ i < Len(steps) => steps[i].res = "ok"
            /\ run[r].pc = "createNote" =>
                  run[r].wroteImage /\ run[r].filepath \in vault
            /\ run[r].wroteNote => run[r].wroteImage

\* a mediated run went through all four steps and wrote its note
C3_Witness ==
    \E r \in Runs :
        /\ variant = "mediated"
        /\ run[r].pc = "done"
        /\ run[r].wroteNote
        /\ Len(run[r].steps) = 4

RequestKinds == {"generate", "download", "describe", "synthesize"}

CountOfKind(requests, kind) ==
    Cardinality({ i \in 1..Len(requests) : requests[i] = kind })

\* C7: no retry: one press of Generate causes at most one request of each
\* kind (one generate request, one download request); after the first failed
\* step the run makes no further request and no further vault write, and the
\* failure stays shown as final.
C7_NoRetry ==
    /\ [](\A r \in Runs :
            /\ \A kind \in RequestKinds : CountOfKind(run[r].requests, kind) <= 1
            /\ run[r].pc = "failed" => run[r].notice = "error")
    /\ [][\A r \in Runs : run[r].pc = "failed" => run'[r] = run[r]]_vars
    /\ [][vault' # vault =>
            \E r \in Runs : ~RunOver(r) /\ run[r].pc # "idle" /\ run'[r] # run[r]]_vars

\* a run failed at its download, after its one generate request and its one
\* download request
C7_Witness ==
    \E r \in Runs :
        /\ run[r].pc = "failed"
        /\ run[r].requests = <<"generate", "download">>
        /\ run[r].notice = "error"

Derived(root, dir) == [root |-> root, dir |-> dir, file |-> NoFile]

IndexFiles == { p \in DOMAIN fileContent : fileContent[p].kind = "base" }

\* run r calls ensureGenerationsBaseExists in this step
CallsEnsureBase(r) ==
    /\ variant = "mediated"
    /\ run[r].pc \in {"createBinary", "createGalleryFolder"}
    /\ run'[r].pc \in {"createNote", "createRootFolder", "createBase"}

\* C11 (as stated): of two calls of ensureGenerationsBaseExists in sequence
\* only the first creates a file, also when the folder setting was changed in
\* between: no call sets out to create an index file while the vault holds
\* the one an earlier call made.
C11_SecondCallCreatesNothing ==
    \A r \in Runs :
        run[r].pc \in {"createRootFolder", "createBase"} => IndexFiles = {}

\* C11 (amended): a call of ensureGenerationsBaseExists creates nothing
\* exactly when the vault holds an entry at the index path derived from the
\* root folder now set; otherwise it sets out to create the file at that
\* path, so a second call under the same setting creates nothing, and a
\* second call under another root creates that root's index file.
C11_OneCreationPerIndexPath ==
    [][\A r \in Runs :
          CallsEnsureBase(r) =>
              /\ run'[r].basePath =
                    Derived(settings.quickbrushFolder, "quickbrush-generations.base")
              /\ run'[r].pc = "createNote" <=> run'[r].basePath \in vault'
              /\ run'[r].pc = "createNote" => run'[r].writes = run[r].writes + 1]_vars

\* a call found the index file an earlier call had made, and went on to the
\* note
C11_Witness ==
    \E r \in Runs :
        /\ variant = "mediated"
        /\ run[r].pc = "createNote"
        /\ run[r].basePath \in IndexFiles
        /\ fileContent[run[r].basePath].gen # r

\* C12: after a change of the folder setting and the next generation, an
\* index file exists whose query filters on the gallery folder derived from
\* the new setting: a run that has made sure of the index file leaves, at the
\* index path of the root it read, a file that filters on that root's gallery
\* folder.
C12_IndexFollowsFolder ==
    \A r \in Runs :
        variant = "mediated" /\ run[r].pc \in {"createNote", "done"} =>
            /\ run[r].basePath \in IndexFiles
            /\ fileContent[run[r].basePath].ref =
                  Derived(run[r].basePath.root, "quickbrush-gallery")

\* the name hint of run r's image
NameHint(r) == IF variant = "mediated" THEN run[r].resultName ELSE run[r].imageName

\* C14: the image's file name is the sanitized name hint ('Elara
\* Moonwhisper!!' gives 'Elara-Moonwhisper'), then a disambiguating suffix
\* (remote identifier or timestamp), then the fixed extension; without a name
\* hint it is the generic prefix and the same suffix.
C14_NameThenSuffix ==
    /\ sanitize(<<"Elara", " ", "Moonwhisper", "!", "!">>) = <<"Elara", "-", "Moonwhisper">>
    /\ \A r \in Runs :
          run[r].filepath # NoPath =>
              LET file == run[r].filepath.file
              IN  /\ file.base = IF NameHint(r) = <<>> THEN <<"quickbrush">>
                                 ELSE sanitize(NameHint(r))
                  /\ file.suffix >= 0
                  /\ file.ext = IF variant = "mediated" THEN "webp" ELSE "png"

\* C15: once an image file or a note file is written, nothing modifies,
\* overwrites or deletes it: every step of the plugin leaves it in the vault
\* with the content it had.
C15_EntriesNeverChange ==
    [][\A p \in DOMAIN fileContent :
          fileContent[p].kind \in {"image", "note"} =>
              /\ p \in vault'
              /\ p \in DOMAIN fileContent'
              /\ fileContent'[p] = fileContent[p]]_vars

\* a later generation aimed at the path of an earlier session's image and
\* failed, the earlier image still there
C15_Witness ==
    \E r \in Runs :
        /\ run[r].pc = "failed"
        /\ run[r].filepath \in DOMAIN fileContent
        /\ fileContent[run[r].filepath] = Content("image", 0, NoPath)

\* run r enters the step in this step
EntersStep(r, step) ==
    /\ Len(run'[r].steps) = Len(run[r].steps) + 1
    /\ run'[r].steps[Len(run'[r].steps)].step = step

\* C16: the three storage locations are {root}/quickbrush-images,
\* {root}/quickbrush-gallery and {root}/quickbrush-generations.base for the
\* root folder set when they are read, and a change of the root folder
\* changes the settings only: nothing in the vault is moved, renamed, created
\* or deleted by it.
C16_LocationsFollowRoot ==
    /\ [][\A r \in Runs :
            LET root == settings.quickbrushFolder
            IN  /\ EntersStep(r, "image") =>
                      /\ run'[r].pc \in {"createImagesFolder", "createBinary"}
                      /\ run'[r].pc = "createImagesFolder" =>
                            run'[r].target = Derived(root, "quickbrush-images")
                      /\ run'[r].pc = "createBinary" =>
                            [run'[r].filepath EXCEPT !.file = NoFile] =
                                Derived(root, "quickbrush-images")
                /\ EntersStep(r, "note") =>
                      run'[r].galleryFolder = Derived(root, "quickbrush-gallery")
                /\ CallsEnsureBase(r) =>
                      run'[r].basePath = Derived(root, "quickbrush-generations.base")]_vars
    /\ [][settings'.quickbrushFolder # settings.quickbrushFolder =>
            vault' = vault /\ fileContent' = fileContent /\ run' = run]_vars

\* the root folder was changed with an earlier generation in the vault, and
\* a generation made under the new root has written its note there
C16_Witness ==
    /\ settings.quickbrushFolder = "Art"
    /\ EarlierVault(variant) \subseteq vault
    /\ \E r \in Runs :
          /\ run[r].pc = "done"
          /\ run[r].galleryFolder = Derived("Art", "quickbrush-gallery")
          /\ run[r].target = NoPath
          /\ \E p \in vault : p.root = "Art" /\ p.dir = "quickbrush-gallery" /\ p.file # NoFile

FolderSteps == {"createImagesFolder", "createGalleryFolder", "createRootFolder"}

\* C19: ensureFolderExists is idempotent: with an entry at the path it
\* creates nothing, without one it creates the folder once; a call for the
\* same path afterwards creates nothing and does not fail.
C19_EnsureFolderIdempotent ==
    [][\A r \in Runs :
          /\ run'[r].pc \in FolderSteps /\ run'[r].pc # run[r].pc =>
                run'[r].target \notin vault'
          /\ EntersStep(r, "image") /\ Derived(settings.quickbrushFolder, "quickbrush-images") \in vault =>
                run'[r].pc = "createBinary"
          /\ EntersStep(r, "note") /\ Derived(settings.quickbrushFolder, "quickbrush-gallery") \in vault' =>
                run'[r].pc \notin {"createGalleryFolder", "failed"}
          /\ run[r].pc \in FolderSteps /\ run'[r].pc \notin {run[r].pc, "failed"} =>
                run[r].target \in vault' /\ run[r].target \notin vault]_vars

\* a run found the images folder and the gallery folder in the vault and
\* went through both calls without a creation
C19_Witness ==
    \E r \in Runs :
        /\ run[r].pc = "done"
        /\ run[r].writes = 2
        /\ [run[r].filepath EXCEPT !.file = NoFile] \in vault

(***************************************************************************)
(* Opening the modal on a note.                                            *)
(***************************************************************************)
\* the data URLs of the paths that resolve to a readable file, in the order
\* of the paths
RECURSIVE DidResolve(_, _)
DidResolve(paths, entries) ==
    IF entries = <<>> THEN <<>>
    ELSE LET n == Len(entries)
             before == DidResolve(paths, SubSeq(entries, 1, n - 1))
         IN  IF entries[n].kind = "file" /\ entries[n].readable
             THEN Append(before,
                         [kind |-> "data", path |-> paths[n],
                          mimeType |-> IF entries[n].extension = "jpeg"
                                       THEN "image/jpeg" ELSE "image/png"])
             ELSE before

\* C13: resolveImageToBase64 never raises - a path that does not resolve, an
\* entry that is not a regular file and a failed read all give null; the
\* image is skipped, and once every path has been tried the modal is open
\* with exactly the images that did resolve, in their extraction order.
C13_UnresolvedImagesSkipped ==
    /\ opening.error # "resolve"
    /\ opening.pc = "resolving" => Len(opening.entries) < Len(opening.paths)
    /\ opening.pc \in {"resolving", "opened"} =>
           opening.initialImages = DidResolve(opening.paths, opening.entries)
    /\ opening.pc = "opened" =>
           modal.open /\ modal.referenceImages = Len(opening.initialImages)

\* a modal opened after a failed read, a folder and a missing path were
\* skipped and a later image resolved
C13_Witness ==
    /\ opening.pc = "opened"
    /\ modal.open
    /\ Len(opening.paths) = 3
    /\ opening.entries[1].kind = "file" /\ ~opening.entries[1].readable
    /\ opening.entries[2].kind \in {"none", "folder"}
    /\ opening.entries[3].kind = "file" /\ opening.entries[3].readable
    /\ modal.referenceImages = 1

(***************************************************************************)
(* The cleaned text.                                                       *)
(***************************************************************************)
\* C20: the cleaned text produced by extractContentWithoutFrontmatter is
\* never longer than 10,000 characters, whatever the document.
C20_CleanedTextWithinLimit ==
    cleaned # NotCleaned => cleaned.kept >= 0 /\ cleaned.kept <= TextLimit

\* a note with formatting whose text is longer than the limit after the
\* formatting is removed, cut to the limit
C20_Witness ==
    /\ cleaned # NotCleaned
    /\ Len(cleaned.text) < Len(content)
    /\ textLength(cleaned.text) > TextLimit
    /\ cleaned.kept = TextLimit

(***************************************************************************)
(* The front-matter of gallery notes.                                      *)
(***************************************************************************)
FromDropdowns(given) ==
    /\ given.generation_type \in GenerationTypes
    /\ given.quality \in Qualities
    /\ given.aspect_ratio \in AspectRatios

\* the line `key: "value"` with a backslash before every double quote of the
\* value
RECURSIVE Escaped(_)
Escaped(value) ==
    IF value = <<>> THEN <<>>
    ELSE (IF value[1] = Quote THEN <<Backslash>> ELSE <<>>)
         \o <<value[1]>> \o Escaped(Tail(value))

HasLine(text, line) ==
    \E i \in 1..Len(text) :
        /\ i > 1 /\ text[i - 1] = "NL"
        /\ i + Len(line) - 1 <= Len(text)
        /\ SubSeq(text, i, i + Len(line) - 1) = line

QuotedLines(text, given) ==
    \A key \in {"generation_type", "quality", "aspect_ratio"} :
        HasLine(text, <<key, ":", " ", Quote>> \o Escaped(given[key]) \o <<Quote, "NL">>)

BareLines(text, given) ==
    \A key \in {"generation_type", "quality", "aspect_ratio"} :
        HasLine(text, <<key, ":", " ">> \o given[key] \o <<"NL">>)

NoBackslash(given) ==
    \A key \in {"generation_type", "quality", "aspect_ratio"} :
        \A i \in 1..Len(given[key]) : given[key][i] # Backslash

PhasesCalled == [i \in 1..Len(phases) |-> phases[i].phase]

\* the failure generateImage met: of a phase that was called and threw
Cause ==
    IF provider.describe.kind = "throw" THEN provider.describe ELSE provider.synthesize

PhaseFailed ==
    /\ op = "generateDirect" /\ outcome # Pending
    /\ provider.setup.kind = "return"
    /\ "throw" \in {provider.describe.kind, provider.synthesize.kind}

DescribeThenSynthesize ==
    (op = "generateDirect" /\ outcome # Pending /\ provider.setup.kind = "return") =>
        /\ PhasesCalled \in { <<"describe">>, <<"describe", "synthesize">> }
        /\ Len(phases) = 2 => phases[2].description = provider.describe.message
        /\ provider.describe.kind = "throw" => PhasesCalled = <<"describe">>

\* C18: in the direct build generateImage calls describe, then
\* synthesize with the refined text; synthesize is never called after a
\* failed describe; and a failure of either phase comes out as one error
\* 'Generation failed: {cause}' with the cause in it, with no retry.
C18_FailureCarriesCause ==
    /\ DescribeThenSynthesize
    /\ PhaseFailed =>
           /\ outcome.kind = "throw" /\ outcome.isError
           /\ outcome.message = <<"Generation failed: ">> \o Cause.message

(***************************************************************************)
(* Bulk sync.                                                              *)
(***************************************************************************)
\* how often item i stands in a log of items
RECURSIVE TimesIn(_, _)
TimesIn(log, i) ==
    IF log = <<>> THEN 0
    ELSE (IF Head(log) = i THEN 1 ELSE 0) + TimesIn(Tail(log), i)

\* the items that have been counted and whose file existed when checked
CountedExisting == { i \in 1..Len(sync.counted) : sync.existed[i] }

\* C21: in a sync without overwrite an item whose local file exists causes
\* no network call and no write and is counted as skipped; with overwrite
\* it causes exactly one download and one write and is counted as a
\* success.
C21_SkipOrOverwrite ==
    \A i \in CountedExisting :
        IF sync.overwrite
        THEN /\ TimesIn(sync.downloads, i) = 1
             /\ TimesIn(sync.writes, i) = 1
             /\ sync.counted[i] = "success"
        ELSE /\ TimesIn(sync.downloads, i) = 0
             /\ TimesIn(sync.writes, i) = 0
             /\ sync.counted[i] = "skipped"

\* C21 (amended): without overwrite as stated; with overwrite the item
\* causes exactly one download, at most one image write, and is counted as
\* a success exactly when the download, the image write and the note write
\* all succeeded - then with exactly one image write - and as an error
\* otherwise.
C21_SkipOrOverwriteUnlessFailed ==
    \A i \in CountedExisting :
        IF sync.overwrite
        THEN /\ TimesIn(sync.downloads, i) = 1
             /\ TimesIn(sync.writes, i) <= 1
             /\ sync.counted[i] \in {"success", "error"}
             /\ sync.counted[i] = "success" => TimesIn(sync.writes, i) = 1
        ELSE /\ TimesIn(sync.downloads, i) = 0
             /\ TimesIn(sync.writes, i) = 0
             /\ sync.counted[i] = "skipped"

\* a finished sync with overwrite in which an item that was there is a
\* success
C21_Witness ==
    /\ sync.pc = "tally"
    /\ sync.overwrite
    /\ \E i \in CountedExisting : sync.counted[i] = "success"
    /\ sync.success >= 1

\* C22: a failure on one item is one error and the run goes on: every item
\* handled so far is in exactly one of the three counts, the items are
\* handled one at a time and in order, and a run that has nothing left to do
\* is at its tally with every fetched item counted.
C22_EveryItemCountedOnce ==
    /\ sync.success + sync.skipped + sync.errors = Len(sync.counted)
    /\ sync.success = TimesIn(sync.counted, "success")
    /\ sync.skipped = TimesIn(sync.counted, "skipped")
    /\ sync.errors = TimesIn(sync.counted, "error")
    /\ sync.pc \in {"item", "download", "writeImage", "writeNote"} =>
           /\ sync.next = Len(sync.counted) + 1
           /\ \A k \in 1..Len(sync.downloads) : sync.downloads[k] <= sync.next
    /\ sync.pc = "tally" => Len(sync.counted) = Len(sync.items)
    /\ ~(ENABLED NextSync) => sync.pc = "tally"

\* a finished sync in which an item failed and a later one succeeded
C22_Witness ==
    /\ sync.pc = "tally"
    /\ \E i, j \in 1..Len(sync.counted) :
           i < j /\ sync.counted[i] = "error" /\ sync.counted[j] = "success"

(***************************************************************************)
(* Two generation runs at the same time.                                   *)
(***************************************************************************)
CheckThenCreateSteps == FolderSteps \cup {"createBase"}

\* C23: beside the settings nothing shared is raced for: of two runs in
\* flight together neither fails where it would not fail alone; in
\* particular no creation of the images folder, the gallery folder, the
\* root folder or the index file fails because the entry, missing when the
\* run looked, is there when the creation is made.
C23_NoCheckThenCreateRace ==
    [][\A r \in DOMAIN run :
          (run[r].pc \in CheckThenCreateSteps /\ run'[r].pc = "failed") =>
              run[r].target \notin vault]_vars

(***************************************************************************)
(* The settings and data.json.                                             *)
(***************************************************************************)
AllSavesCompleted == disk.started # <<>> /\ disk.saves = <<>>

\* C24 (as claimed): after any sequence of field edits, once all the saves
\* they began are written, data.json holds the settings in memory, in
\* whatever order the saves were written.
C24_SavedIsInMemory == AllSavesCompleted => disk.saved = settings

\* C24 (amended): once all the saves are written, data.json holds the
\* settings as they were in memory when the save written last was begun;
\* these are the settings in memory when the save begun last is written last.
C24_SavedIsLastWritten ==
    AllSavesCompleted =>
        LET last == disk.completed[Len(disk.completed)]
        IN  /\ disk.saved = disk.started[last]
            /\ last = Len(disk.started) => disk.saved = settings

\* two edits, the save of the first written after the save of the second
C24_Witness ==
    /\ AllSavesCompleted
    /\ Len(disk.completed) >= 2
    /\ disk.completed[Len(disk.completed)] # Len(disk.started)
    /\ disk.saved # settings

(***************************************************************************)
(* The index file is made on demand.                                       *)
(***************************************************************************)
\* run r's note is written in this step
WritesNote(r) == run[r].pc = "createNote" /\ run'[r].wroteNote

\* no step rewrites an index file, and a call of ensureGenerationsBaseExists
\* that finds one goes on to the note and makes none
IndexNeverRewritten(r) ==
    /\ \A p \in IndexFiles : p \in IndexFiles' /\ fileContent'[p] = fileContent[p]
    /\ CallsEnsureBase(r) /\ run'[r].basePath \in vault =>
          /\ run'[r].pc = "createNote"
          /\ IndexFiles' = IndexFiles

\* C25 (as claimed): in the mediated build, when a run writes its gallery
\* note an index file exists at the index path derived from the root folder
\* set at the time of the write, and a run that finds the index file does
\* not rewrite it.
C25_IndexAtRootInForce ==
    [][\A r \in Runs :
          variant = "mediated" =>
              /\ WritesNote(r) =>
                    Derived(settings.quickbrushFolder, "quickbrush-generations.base")
                        \in IndexFiles'
              /\ IndexNeverRewritten(r)]_vars

\* C25 (amended): in the mediated build, when a run writes its gallery note
\* an index file exists at the index path derived from the root folder that
\* was set when the run made sure of the index file, and a run that finds the
\* index file does not rewrite it.
C25_IndexAtRootRead ==
    [][\A r \in Runs :
          variant = "mediated" =>
              /\ WritesNote(r) =>
                    /\ \E f \in Folders :
                          run[r].basePath = Derived(f, "quickbrush-generations.base")
                    /\ run[r].basePath \in IndexFiles'
              /\ IndexNeverRewritten(r)]_vars

\* a run made the index file itself and wrote its note, the folder setting
\* changed since
C25_Witness ==
    \E r \in Runs :
        /\ variant = "mediated"
        /\ run[r].wroteNote
        /\ run[r].basePath \in IndexFiles
        /\ fileContent[run[r].basePath].gen = r
        /\ run[r].basePath.root # settings.quickbrushFolder

(***************************************************************************)
(* The aspect ratio that goes with the type.                               *)
(***************************************************************************)
\* C26: as long as the aspect ratio was not picked by hand, it is landscape
\* when the type is scene and square when the type is character, creature or
\* item, from the opening of the modal on and after every change of the type.
C26_AspectRatioFollowsType ==
    dropdowns.open /\ ~dropdowns.byHand =>
        dropdowns.aspectRatio =
            (IF dropdowns.type = "scene" THEN "landscape" ELSE "square")

(***************************************************************************)
(* Two generations of one name.                                            *)
(***************************************************************************)
\* C27: a generation whose name sanitizes to the base of an earlier
\* generation's image still writes its own image: no run fails at the image
\* write with its path taken by an earlier image (two images that the direct
\* build names in the same millisecond aside).
C27_SameNameStillPersists ==
    [][\A r \in Runs :
          (/\ run[r].pc = "createBinary"
           /\ run'[r].pc = "failed"
           /\ run[r].target \in vault) =>
              variant = "direct" /\ run[r].target.file.suffix = 0]_vars

(***************************************************************************)
(* The credential at the time of the request.                              *)
(***************************************************************************)
\* run r sends its first request in this step
SendsRequest(r) == run[r].requests = <<>> /\ run'[r].requests # <<>>

\* C28: no generation request is sent with an empty API key, also when the
\* key is edited in the settings while a generate modal is open: in every
\* step that sends a run's request the key set at that time is not empty.
C28_NoRequestWithoutKey ==
    [][\A r \in Runs : SendsRequest(r) => settings.apiKey # ""]_vars

(***************************************************************************)
(* Every invocation with a key ends in a modal.                            *)
(***************************************************************************)
\* openGenerateModal was invoked and has nothing left to wait for
OpeningOver == opening.pc \notin {"idle", "reading", "resolving"}

\* C29: an invocation of openGenerateModal with a key set ends with the
\* generate modal open, with or without an active file and also when the
\* read of the active file fails; without a key no modal opens and no file
\* is read.
C29_InvocationOpensModal ==
    /\ OpeningOver => modal.open
    /\ settings.apiKey = "" => ~modal.open /\ opening.pc = "idle"

(***************************************************************************)
(* A press of Generate on an empty draft.                                  *)
(***************************************************************************)
\* the description is empty or white space only, or, in the mediated build,
\* the image name is
EmptyDraft ==
    \/ modal.text.core = 0
    \/ variant = "mediated" /\ \A i \in 1..Len(modal.name) : modal.name[i] \in WhiteSpace

\* the notices of handleGenerate's checks
ValidationNotices == {"Description Required", "Image Name Required"}

\* C30: a press of Generate on an empty draft changes nothing: from a state
\* with the modal open on an empty draft no step sends a request, starts a
\* run or writes to the vault, and the step that tells the user so (the
\* press) leaves the modal open with its draft as it is.
C30_EmptyDraftChangesNothing ==
    [][modal.open /\ EmptyDraft =>
          /\ lastRequest' = lastRequest
          /\ run' = run
          /\ vault' = vault /\ fileContent' = fileContent
          /\ notice' # notice /\ notice' \in ValidationNotices => modal' = modal]_vars

\* Generate was pressed on a description of white space only: the modal is
\* open on it, nothing was sent
C30_Witness ==
    /\ modal.open
    /\ modal.text = Draft(1, 0)
    /\ notice = "Description Required"
    /\ lastRequest = NoRequest

====
